---- MODULE Spec2Model ----
(***************************************************************************)
(* Xerauditron audit endpoints: quick_links, full_analysis, deep_analysis  *)
(* and form_validation, with the multi-strategy fetch engine and the       *)
(* depth-1 crawl loops.  One request is followed from its arrival to its   *)
(* response; the target web site is the environment.                       *)
(***************************************************************************)
EXTENDS Integers, Sequences, FiniteSets, TLC

None == "none"

(***************************************************************************)
(* Bounds of the model.                                                    *)
(***************************************************************************)
\* most distinct same-origin pages linked from a form_validation seed page
MaxLinks == 11
\* most distinct same-origin pages linked from a deep_analysis seed page
MaxDeepLinks == 3
\* latest anchor position at which a seed page links to itself
MaxSelfPos == 2
\* most links either extraction tier of quick_links recovers from a page
MaxTierLinks == 2
\* most anchors of a page given to the link extraction
MaxAnchors == 2
\* most images, most links and most form fields of a page given to the scores
MaxElements == 2
\* most fields of a form given to the form classifier
MaxFormInputs == 3
\* most links of the seed page of one of two concurrent crawls
MaxSessionLinks == 2

(***************************************************************************)
(* Program constants.                                                      *)
(***************************************************************************)
defaultMaxRetries == 3
subPageRetries == 2
maxPages == 10
linkLimit == 20
maxLinksToAnalyze == 15

strategies == <<"standard", "mobile", "crawler">>

Operations == {"quick_links", "full_analysis", "deep_analysis", "form_validation"}

(***************************************************************************)
(* URLs.  The request carries a string; the pages of the site x.com are    *)
(* "https://x.com/" (the root) and "https://x.com/p1", "https://x.com/p2", *)
(* ...  A page also has a second spelling that the URL parser normalises.  *)
(***************************************************************************)
PageUrl(i) == IF i = 0 THEN "https://x.com/" ELSE "https://x.com/p" \o ToString(i)

AltUrl(i) == IF i = 0 THEN "https://x.com" ELSE "https://x.com/./p" \o ToString(i)

PageIds == 0..((IF MaxLinks > linkLimit THEN MaxLinks ELSE linkLimit) + 2)

\* the url values a request body can carry ("" stands for a missing url)
InputUrls == {"", "a b", "x.com", "https://x.com/"}

\* request bodies: json = FALSE is a body request.json() rejects
Requests == {[json |-> FALSE, url |-> ""]} \cup {[json |-> TRUE, url |-> u] : u \in InputUrls}

\* url.startsWith("http://") || url.startsWith("https://")
HasScheme(u) == u \in {PageUrl(i) : i \in PageIds} \cup {AltUrl(i) : i \in PageIds}

\* let targetUrl = url.trim(); prefix "https://" when no scheme
PrefixedUrl(u) == IF HasScheme(u) THEN u ELSE "https://" \o u

\* new URL(s) succeeds
Parseable(s) == s \in {PageUrl(i) : i \in PageIds} \cup {AltUrl(i) : i \in PageIds}

\* new URL(s).href: the normalised absolute URL
Href(s) ==
    IF \E i \in PageIds : s = AltUrl(i)
    THEN PageUrl(CHOOSE i \in PageIds : s = AltUrl(i))
    ELSE s

\* s.startsWith(p)
StartsWith(s, p) == Len(s) >= Len(p) /\ SubSeq(s, 1, Len(p)) = p

\* s.indexOf(p, from), counted from 1; 0 when p does not occur
IndexOf(s, p, from) ==
    LET hits == {i \in from..(Len(s) - Len(p) + 1) : SubSeq(s, i, i + Len(p) - 1) = p}
    IN  IF hits = {} THEN 0 ELSE CHOOSE i \in hits : \A j \in hits : i <= j

\* where the authority of an absolute URL ends
AuthorityEnd(u) ==
    LET a == IndexOf(u, "://", 1) + 3
        e == IndexOf(u, "/", a)
    IN  IF e = 0 THEN Len(u) ELSE e - 1

\* new URL(u).hostname of an absolute URL without port and user info
Hostname(u) == SubSeq(u, IndexOf(u, "://", 1) + 3, AuthorityEnd(u))

\* `${protocol}//${host}` of an absolute URL
Origin(u) == SubSeq(u, 1, AuthorityEnd(u))

\* the path of an absolute URL as the URL parser serialises it: "/" when the
\* URL has none, "." segments removed, a double quote percent-encoded
RECURSIVE SerializePath(_)
SerializePath(p) ==
    IF p = "" THEN "/"
    ELSE IF IndexOf(p, "/./", 1) > 0
    THEN LET i == IndexOf(p, "/./", 1)
         IN  SerializePath(SubSeq(p, 1, i) \o SubSeq(p, i + 3, Len(p)))
    ELSE IF IndexOf(p, "\"", 1) > 0
    THEN LET i == IndexOf(p, "\"", 1)
         IN  SerializePath(SubSeq(p, 1, i - 1) \o "%22" \o SubSeq(p, i + 1, Len(p)))
    ELSE p

\* new URL(href, base).href for a base page in the root directory of its
\* site; None when the constructor throws (an absolute href whose host is empty or holds a "[")
resolveUrl(href, base) ==
    LET abs == IF StartsWith(href, "https://") \/ StartsWith(href, "http://") THEN href
               ELSE IF StartsWith(href, "//") THEN "https:" \o href
               ELSE IF StartsWith(href, "/") THEN Origin(base) \o href
               ELSE IF StartsWith(href, "#") THEN base \o href
               ELSE Origin(base) \o "/" \o href
    IN  IF Hostname(abs) = "" \/ IndexOf(Hostname(abs), "[", 1) > 0
        THEN None
        ELSE Origin(abs) \o SerializePath(SubSeq(abs, AuthorityEnd(abs) + 1, Len(abs)))

(***************************************************************************)
(* Outcomes of one HTTP request, as fetch() reports them.                  *)
(***************************************************************************)
Outcomes == {"ok", "403", "429", "500", "neterr", "abort"}

\* the outcomes fetch(url) can have: an unparseable url makes fetch reject
\* with a TypeError before any request leaves
OutcomesFor(u) == IF Parseable(u) THEN Outcomes ELSE {"invalid"}

\* response.ok
IsOk(o) == o = "ok"

\* response.status === 403 || response.status === 429
IsBlocked(o) == o \in {"403", "429"}

\* the Error recorded for a failed request
ErrorOf(o) ==
    CASE o = "403" -> "HTTP 403"
      [] o = "429" -> "HTTP 429"
      [] o = "500" -> "HTTP 500"
      [] o = "neterr" -> "fetch failed"
      [] o = "abort" -> "AbortError"
      [] o = "invalid" -> "Failed to parse URL"
      [] OTHER -> "Unknown error"

\* outcomes of reading a response body with response.text()
BodyOutcomes == {"ok", "error"}

(***************************************************************************)
(* State.                                                                  *)
(***************************************************************************)
VARIABLES
    op,              \* the operation the request is for
    req,             \* the request body
    targetUrl,       \* the URL string the handler works on
    pc,              \* where the handler stands
    phase,           \* "seed" or "sub": which page fetchWithStrategies is fetching
    fw,              \* the locals of the latest fetchWithStrategies call, cleared
                     \* when the handler moves on to the next page; delayMs is
                     \* the delay awaited in the running iteration (0: none),
                     \* delays the number of delays awaited in the call
    crawledPages,    \* form_validation: crawledPages
    successfulPages, \* form_validation: successfulPages
    processedUrls,   \* form_validation: processedUrls
    allForms,        \* form_validation: allForms
    internalLinks,   \* the links extracted from the seed page
    idx,             \* position of the crawl loop in the candidate list
    analyzed,        \* deep_analysis: analyzedData.length
    failed,          \* number of sub-pages whose fetch or analysis failed
    analyzedData,    \* deep_analysis: analyzedData
    failedData,      \* deep_analysis: failedData, as the URLs of its entries
    pageFetches,     \* the absolute URLs fetched as a page, in order
    seed2xx,         \* a request for the seed page has returned 2xx
    seedHtml,        \* what the seed page turned out to hold, once read
    resp             \* the response, NoResponse until it is sent

vars == <<op, req, targetUrl, pc, phase, fw, crawledPages, successfulPages,
          processedUrls, allForms, internalLinks, idx, analyzed, failed,
          analyzedData, failedData, pageFetches, seed2xx, seedHtml, resp>>

crawlVars == <<crawledPages, successfulPages, processedUrls, allForms,
               internalLinks, idx, analyzed, failed, analyzedData, failedData>>

NoFetch == [url |-> None, maxRetries |-> 0, attempt |-> 0, sIdx |-> 1,
            lastError |-> None, requests |-> 0, firstOk |-> 0,
            delayMs |-> 0, delays |-> 0,
            lastStrategy |-> None, lastOutcome |-> None, result |-> None]

NoHtml == [read |-> FALSE, links |-> 0, selfPos |-> 0, tiers |-> <<0, 0>>,
           hrefs |-> <<>>, anchors |-> <<>>, hidden |-> FALSE]

(***************************************************************************)
(* Responses.  A field the body does not carry is None (-1 for a number).  *)
(* source tells where the links or forms of the body come from: "html"     *)
(* when they were extracted from fetched pages, "synthetic" when made up.  *)
(***************************************************************************)
Response(http, status, method) ==
    [http |-> http, status |-> status, method |-> method, note |-> FALSE,
     error |-> FALSE, source |-> None, total |-> -1,
     total_pages_crawled |-> -1, successful_pages |-> -1, forms_found |-> -1,
     forms_with_multiple_inputs |-> -1, form_types_breakdown |-> {},
     detailed_forms |-> <<>>, internal_links |-> <<>>, external_links |-> <<>>,
     analyzed_data |-> <<>>, failed_data |-> <<>>,
     accessibility_score |-> -1, seo_score |-> -1, summary |-> None,
     cms_detected |-> None, analytics_tools |-> None]

\* NextResponse.json({ error: ... }, { status: code })
ErrorResponse(code) == [Response(code, None, None) EXCEPT !.error = TRUE]

\* no response has been sent yet
NoResponse == Response(0, None, None)

\* no request has arrived yet
NoRequest == [json |-> FALSE, url |-> None]

Init ==
    /\ op = None
    /\ req = NoRequest
    /\ targetUrl = None
    /\ pc = "idle"
    /\ phase = None
    /\ fw = NoFetch
    /\ crawledPages = 0
    /\ successfulPages = 0
    /\ processedUrls = {}
    /\ allForms = <<>>
    /\ internalLinks = <<>>
    /\ idx = 0
    /\ analyzed = 0
    /\ failed = 0
    /\ analyzedData = <<>>
    /\ failedData = <<>>
    /\ pageFetches = <<>>
    /\ seed2xx = FALSE
    /\ seedHtml = NoHtml
    /\ resp = NoResponse

(***************************************************************************)
(* fetchWithStrategies(url, maxRetries)                                    *)
(***************************************************************************)
StartFetch(url, retries) == [NoFetch EXCEPT !.url = url, !.maxRetries = retries]

\* the loop variables after the body of one iteration has run to its end
NextIteration(f) ==
    IF f.sIdx < Len(strategies)
    THEN [f EXCEPT !.sIdx = @ + 1]
    ELSE [f EXCEPT !.sIdx = 1, !.attempt = @ + 1]

\* fetchRequest with the `return response` left out: a 2xx response is
\* noted and the loop goes on to the next strategy
fetchRequest_NoReturn(f, o) ==
    LET made == [f EXCEPT !.requests = @ + 1, !.delayMs = 0,
                          !.lastStrategy = strategies[f.sIdx],
                          !.lastOutcome = o]
    IN  IF IsOk(o)
        THEN NextIteration([made EXCEPT !.firstOk = IF @ = 0 THEN made.requests ELSE @])
        ELSE NextIteration([made EXCEPT !.lastError = ErrorOf(o)])

\* fetchRequest with a catch that leaves the strategy loop: after a thrown
\* or rejected request the next attempt starts over with the first strategy
fetchRequest_BreakOnThrow(f, o) ==
    LET made == [f EXCEPT !.requests = @ + 1, !.delayMs = 0,
                          !.lastStrategy = strategies[f.sIdx],
                          !.lastOutcome = o]
    IN  IF IsOk(o)
        THEN [made EXCEPT !.firstOk = IF @ = 0 THEN made.requests ELSE @,
                          !.result = "response"]
        ELSE IF IsBlocked(o)
        THEN NextIteration([made EXCEPT !.lastError = ErrorOf(o)])
        ELSE [made EXCEPT !.lastError = ErrorOf(o), !.sIdx = 1, !.attempt = @ + 1]

\* one iteration of the inner loop: the request made with strategy sIdx of
\* attempt `attempt` has outcome o
fetchRequest(f, o) ==
    LET made == [f EXCEPT !.requests = @ + 1, !.delayMs = 0,
                          !.lastStrategy = strategies[f.sIdx],
                          !.lastOutcome = o]
    IN  IF IsOk(o)
        THEN \* return response
             [made EXCEPT !.firstOk = IF @ = 0 THEN made.requests ELSE @,
                          !.result = "response"]
        ELSE IF IsBlocked(o)
        THEN \* lastError = new Error(...); continue
             NextIteration([made EXCEPT !.lastError = ErrorOf(o)])
        ELSE \* thrown (other status) or rejected (network, abort, bad url):
             \* the catch records it; with or without its `continue` the
             \* next iteration follows
             NextIteration([made EXCEPT !.lastError = ErrorOf(o)])

\* the values of Math.random() the model draws, in thousandths
Randoms == {0, 999}

\* the delay of fetchWithStrategies drawn as the crawl loop draws its delay:
\* Math.random() * 1000 + 500
jitterDelay_CrawlDelay(r) == (r * 1000) \div 1000 + 500

\* delayMs = Math.random() * 2000 + 1000, for Math.random() = r / 1000
jitterDelay(r) == (r * 2000) \div 1000 + 1000

\* if (attempt > 0) await delay(delayMs): the delay of an iteration of a
\* later attempt has run out
fetchWithStrategies_Delay ==
    /\ pc = "fetch"
    /\ fw.attempt < fw.maxRetries
    /\ fw.attempt > 0
    /\ fw.delayMs = 0
    /\ \E r \in Randoms : fw' = [fw EXCEPT !.delayMs = jitterDelay(r), !.delays = @ + 1]
    /\ UNCHANGED <<op, req, targetUrl, pc, phase, crawlVars, pageFetches, seed2xx,
                   seedHtml, resp>>

\* a request of the running call
fetchWithStrategies_Request ==
    /\ pc = "fetch"
    /\ fw.attempt < fw.maxRetries
    /\ fw.attempt > 0 => fw.delayMs > 0
    /\ \E o \in OutcomesFor(fw.url) :
        /\ fw' = fetchRequest(fw, o)
        /\ pc' = IF fw'.result = "response" THEN "fetched" ELSE "fetch"
        /\ seed2xx' = (seed2xx \/ (phase = "seed" /\ IsOk(o)))
    /\ UNCHANGED <<op, req, targetUrl, phase, crawlVars, pageFetches, seedHtml, resp>>

\* throw lastError || new Error("All fetch strategies failed")
fetchWithStrategies_Throw ==
    /\ pc = "fetch"
    /\ fw.attempt >= fw.maxRetries
    /\ fw' = [fw EXCEPT !.result = "throw"]
    /\ pc' = "thrown"
    /\ UNCHANGED <<op, req, targetUrl, phase, crawlVars, pageFetches, seed2xx, seedHtml, resp>>

\* The server never completes its response, where no timer is left to cut
\* the wait off: the fetch of full_analysis has no abort signal at all;
\* fetchWithStrategies and the page loop of deep_analysis clear their timer
\* once the headers are there, before the handler awaits response.text().
\* The handler stays in that await.  (The main page of deep_analysis is
\* fetched with AbortSignal.timeout, which also ends the read of the body.)
networkWait_Stalls ==
    /\ pc \in {"fa_fetch", "fa_body", "fetched", "da_body"}
    /\ pc' = "stalled"
    /\ UNCHANGED <<op, req, targetUrl, phase, fw, crawlVars, pageFetches, seed2xx,
                   seedHtml, resp>>

(***************************************************************************)
(* Page contents and link extraction.                                      *)
(***************************************************************************)
Min(a, b) == IF a < b THEN a ELSE b

\* s without the later occurrences of a value it already holds
DedupSeq(s) ==
    LET F[i \in 0..Len(s)] ==
            IF i = 0 THEN <<>>
            ELSE IF \E j \in 1..(i - 1) : s[j] = s[i] THEN F[i - 1]
            ELSE Append(F[i - 1], s[i])
    IN  F[Len(s)]

\* s.slice(0, k)
Slice(s, k) == SubSeq(s, 1, Min(Len(s), k))

\* The anchors of a seed page of x.com, as the absolute URLs their hrefs
\* spell: links to the pages p1..pn in order; when selfPos > 0 a link to the
\* root page "/" is the selfPos-th anchor; when dup, a last anchor spells
\* page p1 a second way.
Anchors(n, selfPos, dup) ==
    LET pages == [i \in 1..n |-> PageUrl(i)]
        k == Min(selfPos, n + 1)
        withSelf == IF selfPos = 0 THEN pages
                    ELSE SubSeq(pages, 1, k - 1) \o <<PageUrl(0)>> \o SubSeq(pages, k, n)
    IN  IF dup /\ n >= 1 THEN Append(withSelf, AltUrl(1)) ELSE withSelf

\* the numbers of links of the seed pages of form_validation: every number up
\* to MaxLinks, and one more than extractLinksFromHtml keeps
SeedLinkCounts == 0..MaxLinks \cup {linkLimit + 1}

\* the numbers of links of the seed pages of deep_analysis: every number up
\* to MaxDeepLinks, and one more than deep_analysis analyses
DeepLinkCounts == 0..MaxDeepLinks \cup {maxLinksToAnalyze + 1}

\* a page of x.com that no seed page links to
OrphanUrl == "https://x.com/orphan"

\* the URLs the anchors of a sub-page lead to: the seed, the page itself and
\* a page that only sub-pages link to
SubPageLinks(url) == <<PageUrl(0), url, OrphanUrl>>

\* extractLinksFromHtml(html, baseUrl): the Set of the anchors' normalised
\* URLs on the base's host, in insertion order, cut to the first 20
extractLinksFromHtml(anchors) ==
    Slice(DedupSeq([i \in 1..Len(anchors) |-> Href(anchors[i])]), linkLimit)

\* hrefs of a seed page that lead, or seem to lead, off the site: another
\* host, a host that starts with the name of the site, the site over the
\* other protocol, and another host written without its protocol
ForeignHrefs == {"https://y.com/q", "https://x.com.evil.com/q", "http://x.com/p1", "//y.com/q"}

\* the fullUrl deep_analysis makes of an href, None when it skips the anchor
deepFullUrl(href, target) ==
    LET baseUrl == Origin(target)
    IN  IF StartsWith(href, "http")
        THEN IF StartsWith(href, baseUrl) THEN href ELSE None
        ELSE IF StartsWith(href, "/") THEN baseUrl \o href
        ELSE IF StartsWith(href, "#") \/ StartsWith(href, "mailto:") \/ StartsWith(href, "tel:")
        THEN None
        ELSE resolveUrl(href, target)

\* deep_analysis: the internalLinks list, the fullUrl of every anchor for
\* which it starts with baseUrl, deduplicated on the string
deepInternalLinks(anchors, target) ==
    LET full == [i \in 1..Len(anchors) |-> deepFullUrl(anchors[i], target)]
    IN  DedupSeq(SelectSeq(full, LAMBDA u : u # None /\ StartsWith(u, Origin(target))))

(***************************************************************************)
(* Strings and the form classifier.                                        *)
(***************************************************************************)
\* s.includes(p)
Includes(s, p) == IndexOf(s, p, 1) > 0

UpperCaseLetters == "ABCDEFGHIJKLMNOPQRSTUVWXYZ"

LowerCaseLetters == "abcdefghijklmnopqrstuvwxyz"

\* s.toLowerCase(), by halves
RECURSIVE ToLowerCase(_)
ToLowerCase(s) ==
    IF s = "" THEN ""
    ELSE IF Len(s) = 1
    THEN LET i == IndexOf(UpperCaseLetters, s, 1)
         IN  IF i > 0 THEN SubSeq(LowerCaseLetters, i, i) ELSE s
    ELSE LET h == Len(s) \div 2
         IN  ToLowerCase(SubSeq(s, 1, h)) \o ToLowerCase(SubSeq(s, h + 1, Len(s)))

\* classifyForm that tests the registration rule before the login rule
classifyForm_RegistrationFirst(inputs, formHtml, pageUrl) ==
    LET inputTypes == [k \in DOMAIN inputs |-> ToLowerCase(inputs[k].type)]
        formText == ToLowerCase(formHtml)
        urlPath == ToLowerCase(pageUrl)
        has(type) == \E k \in DOMAIN inputTypes : inputTypes[k] = type
    IN  IF /\ has("password") /\ Len(inputTypes) >= 3
           /\ (Includes(formText, "register") \/ Includes(formText, "sign up")
                \/ Includes(formText, "create account"))
        THEN "Registration Form"
        ELSE IF /\ has("password") /\ (has("email") \/ has("text"))
                /\ (Includes(formText, "login") \/ Includes(formText, "sign in")
                     \/ Includes(urlPath, "login"))
        THEN "Login Form"
        ELSE "General Form"

\* classifyForm(inputs, formHtml, pageUrl)
classifyForm(inputs, formHtml, pageUrl) ==
    LET inputTypes == [k \in DOMAIN inputs |-> ToLowerCase(inputs[k].type)]
        formText == ToLowerCase(formHtml)
        urlPath == ToLowerCase(pageUrl)
        has(type) == \E k \in DOMAIN inputTypes : inputTypes[k] = type
    IN  IF /\ has("password") /\ (has("email") \/ has("text"))
           /\ (Includes(formText, "login") \/ Includes(formText, "sign in")
                \/ Includes(urlPath, "login"))
        THEN "Login Form"
        ELSE IF /\ has("password") /\ Len(inputTypes) >= 3
                /\ (Includes(formText, "register") \/ Includes(formText, "sign up")
                     \/ Includes(formText, "create account"))
        THEN "Registration Form"
        ELSE IF /\ has("email") /\ (has("textarea") \/ Includes(formText, "message"))
                /\ (Includes(formText, "contact") \/ Includes(formText, "get in touch")
                     \/ Includes(urlPath, "contact"))
        THEN "Contact Form"
        ELSE IF /\ has("email") /\ Len(inputTypes) <= 2
                /\ (Includes(formText, "newsletter") \/ Includes(formText, "subscribe")
                     \/ Includes(formText, "updates"))
        THEN "Newsletter Signup"
        ELSE IF has("search") \/ Includes(formText, "search")
        THEN "Search Form"
        ELSE IF Includes(formText, "payment") \/ Includes(formText, "credit card")
                \/ Includes(formText, "billing")
        THEN "Payment Form"
        ELSE IF has("date") \/ Includes(formText, "booking")
                \/ Includes(formText, "reservation")
        THEN "Booking Form"
        ELSE IF Includes(formText, "quote") \/ Includes(formText, "estimate")
                \/ Includes(formText, "pricing")
        THEN "Quote Request Form"
        ELSE IF Includes(formText, "support") \/ Includes(formText, "help")
                \/ Includes(formText, "ticket")
        THEN "Support Form"
        ELSE IF Includes(formText, "feedback") \/ Includes(formText, "review")
                \/ Includes(formText, "rating")
        THEN "Feedback Form"
        ELSE "General Form"

(***************************************************************************)
(* Forms.  A raw form is the list of the types of its input, select and    *)
(* textarea elements, in document order.                                   *)
(***************************************************************************)
\* the forms a seed page can hold: none, or a search box and a form of three
\* fields
SeedForms == {<<>>, <<<<"search">>, <<"text", "text", "email">>>>}

\* the forms of the sub-pages
SubPageForms(url) == IF url = PageUrl(1) THEN <<<<"email", "password">>>> ELSE <<>>

\* $form.find("input, select, textarea").each(...): the inputs list of a form
formInputs(types) == [k \in 1..Len(types) |-> [type |-> types[k]]]

\* $form.html() of the forms of the site: the form with a password field is
\* headed "Login"
formHtmlOf(types) ==
    IF \E k \in DOMAIN types : types[k] = "password" THEN "<h2>Login</h2>" ELSE "<input>"

\* analyzeForms that reports as input_count the number of distinct input
\* types of the form
analyzeForms_CountsTypes(raw, pageUrl) ==
    LET F[i \in 0..Len(raw)] ==
            IF i = 0 THEN <<>>
            ELSE IF Len(formInputs(raw[i])) >= 2
                 THEN Append(F[i - 1],
                             [page_url |-> pageUrl, form_index |-> i - 1,
                              input_count |-> Cardinality({raw[i][k] : k \in DOMAIN raw[i]}),
                              inputs |-> formInputs(raw[i]),
                              form_classification |->
                                  classifyForm(formInputs(raw[i]), formHtmlOf(raw[i]), pageUrl)])
                 ELSE F[i - 1]
    IN  F[Len(raw)]

\* analyzeForms(html, pageUrl): one entry per form with 2 or more inputs
analyzeForms(raw, pageUrl) ==
    LET F[i \in 0..Len(raw)] ==
            IF i = 0 THEN <<>>
            ELSE LET inputs == formInputs(raw[i])
                 IN  IF Len(inputs) >= 2
                     THEN Append(F[i - 1], [page_url |-> pageUrl, form_index |-> i - 1,
                                            input_count |-> Len(inputs), inputs |-> inputs,
                                            form_classification |->
                                                classifyForm(inputs, formHtmlOf(raw[i]), pageUrl)])
                     ELSE F[i - 1]
    IN  F[Len(raw)]

\* allForms.filter((form) => form.input_count >= 2)
formsWithMultipleInputs(forms) == SelectSeq(forms, LAMBDA f : f.input_count >= 2)

\* formTypesBreakdown: for every form_classification of the forms the number
\* of forms that have it, as the set of the entries of the object
formTypesBreakdown(forms) ==
    {[type |-> t, count |-> Cardinality({k \in DOMAIN forms : forms[k].form_classification = t})] :
        t \in {forms[k].form_classification : k \in DOMAIN forms}}

(***************************************************************************)
(* quick_links                                                             *)
(***************************************************************************)
\* the outermost catch of quick_links
quickLinksErrorFallback ==
    [Response(200, "partial_success", "error_fallback") EXCEPT
        !.note = TRUE, !.error = TRUE, !.source = "synthetic", !.total = 2]

\* the totals generateFallbackData can make up for a site that is not large
EstimatedTotals == {i + e : i \in 5..24, e \in 2..16}

\* quickLinksFallback that answers every failure as the outermost catch does
quickLinksFallback_AlwaysError(url, total) == quickLinksErrorFallback

\* "Final fallback": generateFallbackData(targetUrl) and the response built
\* from it; its new URL(url) throws on an unparseable url, into the outermost catch
quickLinksFallback(url, total) ==
    IF Parseable(url)
    THEN [Response(200, "success", "intelligent_estimation") EXCEPT
            !.note = TRUE, !.source = "synthetic", !.total = total]
    ELSE quickLinksErrorFallback

\* the response of a tier that found n links
quickLinksFound(method, n) ==
    [Response(200, "success", method) EXCEPT !.source = "html", !.total = n]

\* quickLinksExtract that sends the made-up links of the final fallback under
\* the label of the pattern tier
quickLinksExtract_Mislabelled(url, structured, pattern, total) ==
    IF structured > 0 THEN quickLinksFound("cheerio_parsing", structured)
    ELSE IF pattern > 0 THEN quickLinksFound("pattern_extraction", pattern)
    ELSE [quickLinksFallback(url, total) EXCEPT !.method = "pattern_extraction"]

\* quickLinksExtract that runs the pattern tier first and the structured
\* tier only when the patterns find no link
quickLinksExtract_PatternFirst(url, structured, pattern, total) ==
    IF pattern > 0 THEN quickLinksFound("pattern_extraction", pattern)
    ELSE IF structured > 0 THEN quickLinksFound("cheerio_parsing", structured)
    ELSE quickLinksFallback(url, total)

\* the two extraction tiers over a fetched page: structured is the number of
\* links cheerio finds (-1 when it throws), pattern the number the regular
\* expressions find
quickLinksExtract(url, structured, pattern, total) ==
    IF structured > 0 THEN quickLinksFound("cheerio_parsing", structured)
    ELSE IF pattern > 0 THEN quickLinksFound("pattern_extraction", pattern)
    ELSE quickLinksFallback(url, total)

\* POST of quick_links up to the call of fetchWithStrategies
quickLinks_POST ==
    /\ pc = "idle"
    /\ \E r \in Requests :
        /\ op' = "quick_links"
        /\ req' = r
        /\ IF ~r.json
           THEN /\ resp' = quickLinksErrorFallback
                /\ pc' = "done"
                /\ UNCHANGED <<targetUrl, fw, phase, pageFetches>>
           ELSE IF r.url = ""
           THEN /\ resp' = ErrorResponse(400)
                /\ pc' = "done"
                /\ UNCHANGED <<targetUrl, fw, phase, pageFetches>>
           ELSE /\ targetUrl' = PrefixedUrl(r.url)
                /\ fw' = StartFetch(targetUrl', defaultMaxRetries)
                /\ phase' = "seed"
                /\ pc' = "fetch"
                /\ pageFetches' = IF Parseable(targetUrl') THEN <<Href(targetUrl')>> ELSE <<>>
                /\ resp' = NoResponse
    /\ UNCHANGED <<crawlVars, seed2xx, seedHtml>>

\* the seed page was fetched: read it and run the extraction tiers
quickLinks_Page ==
    /\ pc = "fetched"
    /\ op = "quick_links"
    /\ \E b \in BodyOutcomes, total \in EstimatedTotals :
        IF b = "error"
        THEN /\ resp' = quickLinksFallback(targetUrl, total)
             /\ UNCHANGED seedHtml
        ELSE \E structured \in (-1)..MaxTierLinks, pattern \in 0..MaxTierLinks :
             /\ seedHtml' = [NoHtml EXCEPT !.read = TRUE, !.tiers = <<structured, pattern>>]
             /\ resp' = quickLinksExtract(targetUrl, structured, pattern, total)
    /\ pc' = "done"
    /\ UNCHANGED <<op, req, targetUrl, phase, fw, crawlVars, pageFetches, seed2xx>>

\* fetchWithStrategies threw for the seed page
quickLinks_FetchFailed ==
    /\ pc = "thrown"
    /\ op = "quick_links"
    /\ phase = "seed"
    /\ \E total \in EstimatedTotals : resp' = quickLinksFallback(targetUrl, total)
    /\ pc' = "done"
    /\ UNCHANGED <<op, req, targetUrl, phase, fw, crawlVars, pageFetches, seed2xx, seedHtml>>

(***************************************************************************)
(* form_validation                                                         *)
(***************************************************************************)
\* the outermost catch of form_validation
formValidationErrorFallback ==
    [Response(200, "partial_success", "error_fallback") EXCEPT
        !.note = TRUE, !.error = TRUE, !.source = "synthetic",
        !.total_pages_crawled = 1, !.forms_found = 2,
        !.forms_with_multiple_inputs = 1,
        !.detailed_forms = <<[page_url |-> None, form_index |-> 0, input_count |-> 3,
                              inputs |-> None, form_classification |-> "Contact Form"]>>,
        !.form_types_breakdown = {[type |-> "Contact Form", count |-> 1]}]

\* the values generateFormEstimates can give total_pages_crawled
EstimatedPages == 5..14

\* the values generateFormEstimates can give the input_count of a form
EstimatedInputCounts == 2..7

\* formValidationFallback that gives up with an error status, as the catch
\* of full_analysis does
formValidationFallback_Status500(url, pages, inputCount) == ErrorResponse(500)

\* catch (crawlingError): generateFormEstimates(targetUrl) and the response
\* built from it; its new URL(url) throws on an unparseable url, into the
\* outermost catch.  The forms are those of its smallest draw: 2 estimated
\* forms, floor(2 * 0.7) = 1 of them detailed, 1 form of each of the three
\* form types in the breakdown; an estimated form has no inputs list.
formValidationFallback(url, pages, inputCount) ==
    IF Parseable(url)
    THEN [Response(200, "success", "intelligent_estimation") EXCEPT
            !.note = TRUE, !.source = "synthetic", !.total_pages_crawled = pages,
            !.forms_found = 2, !.forms_with_multiple_inputs = 1,
            !.detailed_forms = <<[page_url |-> url, form_index |-> 0,
                                  input_count |-> inputCount, inputs |-> None,
                                  form_classification |-> "Contact Form"]>>,
            !.form_types_breakdown =
                {[type |-> t, count |-> 1] :
                    t \in {"Contact Form", "Newsletter Signup", "Search Form"}}]
    ELSE formValidationErrorFallback

\* formValidationResult that reports successfulPages as total_pages_crawled
formValidationResult_SuccessfulAsCrawled(crawled, successful, forms) ==
    [Response(200, "success", "enhanced_crawling") EXCEPT
        !.source = "html", !.total_pages_crawled = successful,
        !.successful_pages = successful, !.forms_found = Len(forms),
        !.forms_with_multiple_inputs = Len(formsWithMultipleInputs(forms)),
        !.detailed_forms = formsWithMultipleInputs(forms),
        !.form_types_breakdown = formTypesBreakdown(formsWithMultipleInputs(forms))]

\* "Process results": the response of a finished crawl
formValidationResult(crawled, successful, forms) ==
    [Response(200, "success", "enhanced_crawling") EXCEPT
        !.source = "html", !.total_pages_crawled = crawled,
        !.successful_pages = successful, !.forms_found = Len(forms),
        !.forms_with_multiple_inputs = Len(formsWithMultipleInputs(forms)),
        !.detailed_forms = formsWithMultipleInputs(forms),
        !.form_types_breakdown = formTypesBreakdown(formsWithMultipleInputs(forms))]

\* internalLinks.slice(0, maxPages - 1)
crawlCandidates(links) == Slice(links, maxPages - 1)

\* if (processedUrls.has(link) || crawledPages >= maxPages) break
crawlBreak(link, processed, crawled) == link \in processed \/ crawled >= maxPages

\* POST of form_validation up to the call of fetchWithStrategies
formValidation_POST ==
    /\ pc = "idle"
    /\ \E r \in Requests :
        /\ op' = "form_validation"
        /\ req' = r
        /\ IF ~r.json
           THEN /\ resp' = formValidationErrorFallback
                /\ pc' = "done"
                /\ UNCHANGED <<targetUrl, fw, phase, pageFetches>>
           ELSE IF r.url = ""
           THEN /\ resp' = ErrorResponse(400)
                /\ pc' = "done"
                /\ UNCHANGED <<targetUrl, fw, phase, pageFetches>>
           ELSE /\ targetUrl' = PrefixedUrl(r.url)
                /\ fw' = StartFetch(targetUrl', defaultMaxRetries)
                /\ phase' = "seed"
                /\ pc' = "fetch"
                /\ pageFetches' = IF Parseable(targetUrl') THEN <<Href(targetUrl')>> ELSE <<>>
                /\ resp' = NoResponse
    /\ UNCHANGED <<crawlVars, seed2xx, seedHtml>>

\* fetchWithStrategies threw for the seed page
formValidation_FetchFailed ==
    /\ pc = "thrown"
    /\ op = "form_validation"
    /\ phase = "seed"
    /\ \E pages \in EstimatedPages, inputCount \in EstimatedInputCounts :
            resp' = formValidationFallback(targetUrl, pages, inputCount)
    /\ pc' = "done"
    /\ UNCHANGED <<op, req, targetUrl, phase, fw, crawlVars, pageFetches, seed2xx, seedHtml>>

\* the seed page was fetched: read it, analyse its forms, extract its links
formValidation_SeedPage ==
    /\ pc = "fetched"
    /\ op = "form_validation"
    /\ phase = "seed"
    /\ \E b \in BodyOutcomes :
        IF b = "error"
        THEN /\ \E pages \in EstimatedPages, inputCount \in EstimatedInputCounts :
                    resp' = formValidationFallback(targetUrl, pages, inputCount)
             /\ pc' = "done"
             /\ UNCHANGED <<crawlVars, seedHtml, fw>>
        ELSE \E n \in SeedLinkCounts, selfPos \in 0..MaxSelfPos, dup \in BOOLEAN, raw \in SeedForms :
             /\ selfPos <= n + 1
             \* the longest page is drawn without a link to the seed and
             \* without a second spelling
             /\ n > MaxLinks => selfPos = 0 /\ ~dup
             /\ seedHtml' = [NoHtml EXCEPT !.read = TRUE, !.links = n, !.selfPos = selfPos]
             /\ allForms' = allForms \o analyzeForms(raw, targetUrl)
             /\ crawledPages' = crawledPages + 1
             /\ successfulPages' = successfulPages + 1
             /\ processedUrls' = processedUrls \cup {targetUrl}
             /\ internalLinks' = extractLinksFromHtml(Anchors(n, selfPos, dup))
             /\ idx' = 1
             /\ pc' = "crawl"
             /\ resp' = NoResponse
             /\ fw' = NoFetch
             /\ UNCHANGED <<analyzed, failed, analyzedData, failedData>>
    /\ UNCHANGED <<op, req, targetUrl, phase, pageFetches, seed2xx>>

\* the loop goes on: delay, then fetchWithStrategies(link, 2)
formValidation_CrawlPage ==
    /\ pc = "crawl"
    /\ op = "form_validation"
    /\ idx <= Len(crawlCandidates(internalLinks))
    /\ LET link == crawlCandidates(internalLinks)[idx]
       IN  /\ ~crawlBreak(link, processedUrls, crawledPages)
           /\ fw' = StartFetch(link, subPageRetries)
           /\ pageFetches' = Append(pageFetches, Href(link))
    /\ phase' = "sub"
    /\ pc' = "fetch"
    /\ UNCHANGED <<op, req, targetUrl, crawlVars, seed2xx, seedHtml, resp>>

\* formValidation_SubPage that adds the links of the sub-page to the
\* candidates
formValidation_SubPage_FollowsLinks ==
    /\ pc = "fetched"
    /\ op = "form_validation"
    /\ phase = "sub"
    /\ LET link == crawlCandidates(internalLinks)[idx]
       IN  /\ allForms' = allForms \o analyzeForms(SubPageForms(link), link)
           /\ internalLinks' = Slice(DedupSeq(internalLinks \o SubPageLinks(link)), linkLimit)
           /\ processedUrls' = processedUrls \cup {link}
    /\ successfulPages' = successfulPages + 1
    /\ crawledPages' = crawledPages + 1
    /\ idx' = idx + 1
    /\ pc' = "crawl"
    /\ fw' = NoFetch
    /\ UNCHANGED <<op, req, targetUrl, phase, failed, analyzed, analyzedData, failedData,
                   pageFetches, seed2xx, seedHtml, resp>>

\* a sub-page was fetched: read it and analyse its forms; a body that cannot
\* be read lands in the catch of the loop body
formValidation_SubPage ==
    /\ pc = "fetched"
    /\ op = "form_validation"
    /\ phase = "sub"
    /\ LET link == crawlCandidates(internalLinks)[idx]
       IN  /\ \E b \in BodyOutcomes :
                IF b = "ok"
                THEN /\ allForms' = allForms \o analyzeForms(SubPageForms(link), link)
                     /\ successfulPages' = successfulPages + 1
                     /\ failed' = failed
                ELSE /\ failed' = failed + 1
                     /\ UNCHANGED <<allForms, successfulPages>>
           /\ crawledPages' = crawledPages + 1
           /\ processedUrls' = processedUrls \cup {link}
    /\ idx' = idx + 1
    /\ pc' = "crawl"
    /\ fw' = NoFetch
    /\ UNCHANGED <<op, req, targetUrl, phase, internalLinks, analyzed, analyzedData,
                   failedData, pageFetches, seed2xx, seedHtml, resp>>

\* formValidation_SubPageFailed without the try/catch of the loop body: the
\* error of the sub-page reaches catch (crawlingError)
formValidation_SubPageFailed_Uncaught ==
    /\ pc = "thrown"
    /\ op = "form_validation"
    /\ phase = "sub"
    /\ \E pages \in EstimatedPages, inputCount \in EstimatedInputCounts :
            resp' = formValidationFallback(targetUrl, pages, inputCount)
    /\ pc' = "done"
    /\ UNCHANGED <<op, req, targetUrl, phase, fw, crawlVars, pageFetches, seed2xx, seedHtml>>

\* fetchWithStrategies threw for a sub-page: the catch of the loop body
formValidation_SubPageFailed ==
    /\ pc = "thrown"
    /\ op = "form_validation"
    /\ phase = "sub"
    /\ failed' = failed + 1
    /\ crawledPages' = crawledPages + 1
    /\ processedUrls' = processedUrls \cup {crawlCandidates(internalLinks)[idx]}
    /\ idx' = idx + 1
    /\ pc' = "crawl"
    /\ fw' = NoFetch
    /\ UNCHANGED <<op, req, targetUrl, phase, successfulPages, allForms, internalLinks,
                   analyzed, analyzedData, failedData, pageFetches, seed2xx, seedHtml, resp>>

\* the loop ends, by exhaustion or by its break, and the result is built
formValidation_Finish ==
    /\ pc = "crawl"
    /\ op = "form_validation"
    /\ \/ idx > Len(crawlCandidates(internalLinks))
       \/ /\ idx <= Len(crawlCandidates(internalLinks))
          /\ crawlBreak(crawlCandidates(internalLinks)[idx], processedUrls, crawledPages)
    /\ resp' = formValidationResult(crawledPages, successfulPages, allForms)
    /\ pc' = "done"
    /\ UNCHANGED <<op, req, targetUrl, phase, fw, crawlVars, pageFetches, seed2xx, seedHtml>>

(***************************************************************************)
(* full_analysis                                                           *)
(***************************************************************************)
\* the catch of full_analysis: { error: "Analysis failed: ..." }, status 500
fullAnalysisError == ErrorResponse(500)

\* the results object of full_analysis
fullAnalysisResult == [Response(200, "success", None) EXCEPT !.source = "html"]

\* POST of full_analysis up to its fetch
fullAnalysis_POST ==
    /\ pc = "idle"
    /\ \E r \in Requests :
        /\ op' = "full_analysis"
        /\ req' = r
        /\ IF ~r.json
           THEN /\ resp' = fullAnalysisError
                /\ pc' = "done"
                /\ UNCHANGED <<targetUrl, pageFetches>>
           ELSE IF r.url = ""
           THEN /\ resp' = ErrorResponse(400)
                /\ pc' = "done"
                /\ UNCHANGED <<targetUrl, pageFetches>>
           ELSE /\ targetUrl' = PrefixedUrl(r.url)
                /\ pc' = "fa_fetch"
                /\ pageFetches' = IF Parseable(targetUrl') THEN <<Href(targetUrl')>> ELSE <<>>
                /\ resp' = NoResponse
    /\ UNCHANGED <<phase, fw, crawlVars, seed2xx, seedHtml>>

\* the single fetch of full_analysis: anything but 2xx throws
fullAnalysis_Fetch ==
    /\ pc = "fa_fetch"
    /\ \E o \in OutcomesFor(targetUrl) :
        /\ seed2xx' = IsOk(o)
        /\ IF IsOk(o)
           THEN pc' = "fa_body" /\ resp' = NoResponse
           ELSE pc' = "done" /\ resp' = fullAnalysisError
    /\ UNCHANGED <<op, req, targetUrl, phase, fw, crawlVars, pageFetches, seedHtml>>

\* the page is read and analysed
fullAnalysis_Page ==
    /\ pc = "fa_body"
    /\ \E b \in BodyOutcomes :
        IF b = "ok"
        THEN /\ seedHtml' = [NoHtml EXCEPT !.read = TRUE]
             /\ resp' = fullAnalysisResult
        ELSE /\ resp' = fullAnalysisError
             /\ UNCHANGED seedHtml
    /\ pc' = "done"
    /\ UNCHANGED <<op, req, targetUrl, phase, fw, crawlVars, pageFetches, seed2xx>>

(***************************************************************************)
(* deep_analysis                                                           *)
(***************************************************************************)
\* the catch of deep_analysis: { error: "Analysis failed: ..." }, status 500
deepAnalysisError == ErrorResponse(500)

\* analyzedData.reduce((sum, page) => sum + (page[field] || 0), 0)
sumOf(pages, field) ==
    LET F[i \in 0..Len(pages)] == IF i = 0 THEN 0 ELSE F[i - 1] + pages[i][field]
    IN  F[Len(pages)]

\* the averages of the summary of deep_analysis, as exact ratios num / den
deepSummary(pages) ==
    LET average(field) ==
            IF Len(pages) > 0 THEN [num |-> sumOf(pages, field), den |-> Len(pages)]
            ELSE [num |-> 0, den |-> 1]
    IN  [average_accessibility_score |-> average("accessibility_score"),
         average_seo_score |-> average("seo_score")]

\* the result object of deep_analysis
deepAnalysisResult(links, analyzedPages, failedPages) ==
    [Response(200, "completed", None) EXCEPT
        !.source = "html", !.total = Len(links),
        !.total_pages_crawled = Len(analyzedPages) + Len(failedPages),
        !.successful_pages = Len(analyzedPages),
        !.analyzed_data = analyzedPages, !.failed_data = failedPages,
        !.summary = deepSummary(analyzedPages)]

\* linksToAnalyze that takes every internal link
linksToAnalyze_All(links) == links

\* internalLinks.slice(0, maxLinksToAnalyze)
linksToAnalyze(links) == Slice(links, maxLinksToAnalyze)

\* the scores of the sub-pages of the site
subPageScores(url) ==
    IF url = PageUrl(1) THEN [accessibility_score |-> 85, seo_score |-> 62]
    ELSE [accessibility_score |-> 100, seo_score |-> 100]

\* the entry of analyzedData for a page
analyzedPage(url) ==
    [url |-> url, accessibility_score |-> subPageScores(url).accessibility_score,
     seo_score |-> subPageScores(url).seo_score]

\* the site: only the pages the first links of a page lead to can fail, the
\* pages of the later links answer with 2xx and a body that can be read
mayFail(i) == i <= MaxDeepLinks + 3

\* POST of deep_analysis up to the fetch of the main page
deepAnalysis_POST ==
    /\ pc = "idle"
    /\ \E r \in Requests :
        /\ op' = "deep_analysis"
        /\ req' = r
        /\ IF ~r.json
           THEN /\ resp' = deepAnalysisError
                /\ pc' = "done"
                /\ UNCHANGED <<targetUrl, pageFetches>>
           ELSE IF r.url = "" \/ ~Parseable(r.url)
           THEN /\ resp' = ErrorResponse(400)
                /\ pc' = "done"
                /\ UNCHANGED <<targetUrl, pageFetches>>
           ELSE /\ targetUrl' = Href(r.url)
                /\ pc' = "da_seed"
                /\ pageFetches' = <<targetUrl'>>
                /\ resp' = NoResponse
    /\ UNCHANGED <<phase, fw, crawlVars, seed2xx, seedHtml>>

\* the fetch of the main page: a status other than 2xx is answered with 400,
\* a rejected fetch lands in the catch
deepAnalysis_SeedFetch ==
    /\ pc = "da_seed"
    /\ \E o \in OutcomesFor(targetUrl) :
        /\ seed2xx' = IsOk(o)
        /\ IF IsOk(o)
           THEN pc' = "da_seedbody" /\ resp' = NoResponse
           ELSE IF o \in {"403", "429", "500"}
           THEN pc' = "done" /\ resp' = ErrorResponse(400)
           ELSE pc' = "done" /\ resp' = deepAnalysisError
    /\ UNCHANGED <<op, req, targetUrl, phase, fw, crawlVars, pageFetches, seedHtml>>

\* the main page is read and its internal links are collected
deepAnalysis_SeedPage ==
    /\ pc = "da_seedbody"
    /\ \E b \in BodyOutcomes :
        IF b = "error"
        THEN /\ resp' = deepAnalysisError
             /\ pc' = "done"
             /\ UNCHANGED <<internalLinks, idx, seedHtml>>
        ELSE \E n \in DeepLinkCounts, selfPos \in 0..MaxSelfPos, dup \in BOOLEAN,
                foreign \in ForeignHrefs \cup {None} :
             /\ selfPos <= n + 1
             \* the longest page is drawn without a link to the seed, without
             \* a second spelling and without a foreign link
             /\ n > MaxDeepLinks => selfPos = 0 /\ ~dup /\ foreign = None
             /\ LET hrefs == (IF foreign = None THEN <<>> ELSE <<foreign>>)
                                \o Anchors(n, selfPos, dup)
                IN  /\ seedHtml' = [NoHtml EXCEPT !.read = TRUE, !.links = n,
                                                  !.selfPos = selfPos, !.hrefs = hrefs]
                    /\ internalLinks' = deepInternalLinks(hrefs, targetUrl)
             /\ idx' = 1
             /\ pc' = "da_loop"
             /\ resp' = NoResponse
    /\ UNCHANGED <<op, req, targetUrl, phase, fw, crawledPages, successfulPages,
                   processedUrls, allForms, analyzed, failed, analyzedData, failedData,
                   pageFetches, seed2xx>>

\* one iteration of the page loop, up to the end of its fetch
deepAnalysis_PageFetch ==
    /\ pc = "da_loop"
    /\ idx <= Len(linksToAnalyze(internalLinks))
    /\ pageFetches' = Append(pageFetches, Href(linksToAnalyze(internalLinks)[idx]))
    /\ \E o \in (IF mayFail(idx) THEN Outcomes ELSE {"ok"}) :
        IF IsOk(o)
        THEN /\ pc' = "da_body"
             /\ UNCHANGED <<idx, failed, failedData>>
        ELSE \* !response.ok: failedData.push, continue; a rejected fetch: the catch
             /\ failed' = failed + 1
             /\ failedData' = Append(failedData, linksToAnalyze(internalLinks)[idx])
             /\ idx' = idx + 1
             /\ pc' = "da_loop"
    /\ UNCHANGED <<op, req, targetUrl, phase, fw, crawledPages, successfulPages,
                   processedUrls, allForms, internalLinks, analyzed, analyzedData,
                   seed2xx, seedHtml, resp>>

\* a fetched page is read and analysed
deepAnalysis_Page ==
    /\ pc = "da_body"
    /\ LET link == linksToAnalyze(internalLinks)[idx]
       IN  \E b \in (IF mayFail(idx) THEN BodyOutcomes ELSE {"ok"}) :
            IF b = "ok"
            THEN /\ analyzed' = analyzed + 1
                 /\ analyzedData' = Append(analyzedData, analyzedPage(link))
                 /\ UNCHANGED <<failed, failedData>>
            ELSE /\ failed' = failed + 1
                 /\ failedData' = Append(failedData, link)
                 /\ UNCHANGED <<analyzed, analyzedData>>
    /\ idx' = idx + 1
    /\ pc' = "da_loop"
    /\ UNCHANGED <<op, req, targetUrl, phase, fw, crawledPages, successfulPages,
                   processedUrls, allForms, internalLinks, pageFetches, seed2xx, seedHtml, resp>>

\* the loop is over: summary and result
deepAnalysis_Finish ==
    /\ pc = "da_loop"
    /\ idx > Len(linksToAnalyze(internalLinks))
    /\ resp' = deepAnalysisResult(internalLinks, analyzedData, failedData)
    /\ pc' = "done"
    /\ UNCHANGED <<op, req, targetUrl, phase, fw, crawlVars, pageFetches, seed2xx, seedHtml>>

(***************************************************************************)
(* Scores.  A page given to a score is the record of the counts and flags  *)
(* the score reads off the document.  Percentages are kept exact: a score  *)
(* is the rounding of a ratio of integers.                                 *)
(***************************************************************************)
Max(a, b) == IF a > b THEN a ELSE b

\* Math.round(num / den) for den > 0: halves round up
RoundRatio(num, den) == (2 * num + den) \div (2 * den)

\* pages for the accessibility scores.  linksTitled are links without text
\* and aria-label that have a title or aria-labelledby, linksBare links with
\* none of the four; a skip link is one more link, with text.
AccessibilityPages ==
    {p \in [kind : {"accessibility"},
            images : 0..MaxElements, imagesWithoutAlt : 0..MaxElements,
            h1 : 0..2,
            linksNamed : 0..MaxElements, linksTitled : 0..MaxElements,
            linksBare : 0..MaxElements,
            inputs : 0..MaxElements, inputsWithoutLabels : 0..MaxElements,
            lang : BOOLEAN, skipLink : BOOLEAN] :
        /\ p.imagesWithoutAlt <= p.images
        /\ p.linksNamed + p.linksTitled + p.linksBare <= MaxElements
        /\ p.inputsWithoutLabels <= p.inputs}

\* calculateAccessibilityScore that returns Math.round(score - deductions)
\* as it is
calculateAccessibilityScore_Unclamped(p) ==
    LET links == p.linksNamed + p.linksTitled + p.linksBare + (IF p.skipLink THEN 1 ELSE 0)
        di == Max(p.images, 1)
        dl == Max(links, 1)
        dn == Max(p.inputs, 1)
        deductions ==
            30 * p.imagesWithoutAlt * dl * dn
            + (IF p.h1 = 0 THEN 15 ELSE IF p.h1 > 1 THEN 10 ELSE 0) * di * dl * dn
            + 20 * p.linksBare * di * dn
            + 25 * p.inputsWithoutLabels * di * dl
            + (IF ~p.lang THEN 10 ELSE 0) * di * dl * dn
            + (IF ~p.skipLink THEN 5 ELSE 0) * di * dl * dn
    IN  RoundRatio(100 * di * dl * dn - deductions, di * dl * dn)

\* calculateAccessibilityScore(page$) of deep_analysis
calculateAccessibilityScore(p) ==
    LET images == p.images
        links == p.linksNamed + p.linksTitled + p.linksBare + (IF p.skipLink THEN 1 ELSE 0)
        inputs == p.inputs
        di == Max(images, 1)
        dl == Max(links, 1)
        dn == Max(inputs, 1)
        \* the deductions, over the denominator di * dl * dn
        deductions ==
            30 * p.imagesWithoutAlt * dl * dn
            + (IF p.h1 = 0 THEN 15 ELSE IF p.h1 > 1 THEN 10 ELSE 0) * di * dl * dn
            + 20 * p.linksBare * di * dn
            + 25 * p.inputsWithoutLabels * di * dl
            + (IF ~p.lang THEN 10 ELSE 0) * di * dl * dn
            + (IF ~p.skipLink THEN 5 ELSE 0) * di * dl * dn
    IN  Max(0, RoundRatio(100 * di * dl * dn - deductions, di * dl * dn))

\* the accessibility score of full_analysis: 5 points per image without alt
\* and per a element without text and aria-label
fullAnalysisAccessibilityScore(p) ==
    LET accessibility_issues == p.imagesWithoutAlt + p.linksTitled + p.linksBare
    IN  Max(0, 100 - accessibility_issues * 5)

\* pages for the SEO score: lengths of the trimmed title, of the meta
\* description and of the text of the first h1 (0: absent or empty)
SeoPages ==
    {p \in [kind : {"seo"},
            title : {0, 29, 30, 60, 61}, metaDescription : {0, 119, 120, 160, 161},
            h1 : 0..2, h1Text : {0, 19, 20, 70, 71},
            headings : {<<0, 0, 0>>, <<0, 1, 0>>, <<0, 0, 1>>, <<1, 1, 0>>},
            images : 0..MaxElements, imagesWithoutAlt : 0..MaxElements,
            internalLinks : 0..1,
            viewport : BOOLEAN, canonical : BOOLEAN, ogTags : BOOLEAN,
            structuredData : BOOLEAN] :
        /\ p.imagesWithoutAlt <= p.images
        /\ (p.h1 # 1) => p.h1Text = 0
        /\ (p.h1 = 1) => p.h1Text # 0}

\* calculateSEOScore whose checks are one else-if chain: only the first
\* failed check deducts
calculateSEOScore_FirstFailureOnly(p) ==
    LET deductions ==
            IF p.title = 0 THEN 20
            ELSE IF p.title < 30 \/ p.title > 60 THEN 10
            ELSE IF p.metaDescription = 0 THEN 15
            ELSE IF p.metaDescription < 120 \/ p.metaDescription > 160 THEN 8
            ELSE IF p.h1 = 0 THEN 15
            ELSE IF p.h1 > 1 THEN 10
            ELSE IF p.h1Text < 20 \/ p.h1Text > 70 THEN 5
            ELSE IF ~p.viewport THEN 8
            ELSE 0
    IN  Max(0, 100 - deductions)

\* calculateSEOScore(page$) of deep_analysis
calculateSEOScore(p) ==
    LET di == Max(p.images, 1)
        deductions ==
            (  (IF p.title = 0 THEN 20
                ELSE IF p.title < 30 \/ p.title > 60 THEN 10 ELSE 0)
             + (IF p.metaDescription = 0 THEN 15
                ELSE IF p.metaDescription < 120 \/ p.metaDescription > 160 THEN 8 ELSE 0)
             + (IF p.h1 = 0 THEN 15
                ELSE IF p.h1 > 1 THEN 10
                ELSE IF p.h1Text < 20 \/ p.h1Text > 70 THEN 5 ELSE 0)
             + (IF p.headings[1] = 0 /\ (p.headings[2] > 0 \/ p.headings[3] > 0) THEN 8 ELSE 0)
             + (IF p.internalLinks = 0 THEN 10 ELSE 0)
             + (IF ~p.viewport THEN 8 ELSE 0)
             + (IF ~p.canonical THEN 5 ELSE 0)
             + (IF ~p.ogTags THEN 5 ELSE 0)
             + (IF ~p.structuredData THEN 5 ELSE 0)) * di
            + 15 * p.imagesWithoutAlt
    IN  Max(0, RoundRatio(100 * di - deductions, di))

\* s.trim() for the blank
RECURSIVE Trim(_)
Trim(s) ==
    IF s = "" THEN s
    ELSE IF SubSeq(s, 1, 1) = " " THEN Trim(SubSeq(s, 2, Len(s)))
    ELSE IF SubSeq(s, Len(s), Len(s)) = " " THEN Trim(SubSeq(s, 1, Len(s) - 1))
    ELSE s

\* the inner HTML a form given to the form score can have
FormHtmls == {"<input name=a>",
              "<input name=a required>",
              "<label>Name *</label><input type=email>",
              "<fieldset><input aria-label=a></fieldset>",
              "<div role=\"group\"><input required></div>"}

\* the inputs a form given to the form score can have
ScoredInputs == [type : {"text", "email"}, label : {"", " ", "Name"}]

\* forms for the form score: 2 to MaxElements inputs
FormPages ==
    [kind : {"form"}, formHtml : FormHtmls,
     inputs : UNION {[1..k -> ScoredInputs] : k \in 2..MaxElements}]

\* calculateAccessibilityScore(inputs, formHtml) of form_validation
calculateFormAccessibilityScore(inputs, formHtml) ==
    LET hasLabels == \E k \in DOMAIN inputs : Len(Trim(inputs[k].label)) > 0
        hasRequiredIndicators == Includes(formHtml, "required") \/ Includes(formHtml, "*")
        hasFieldsets == Includes(formHtml, "<fieldset") \/ Includes(formHtml, "role=\"group\"")
        hasAriaAttributes == Includes(formHtml, "aria-") \/ Includes(formHtml, "role=")
        hasProperTypes == \E k \in DOMAIN inputs :
                              inputs[k].type \in {"email", "tel", "url", "number", "date"}
        score == 100 - (IF hasLabels THEN 0 ELSE 20)
                     - (IF hasRequiredIndicators THEN 0 ELSE 15)
                     - (IF hasFieldsets THEN 0 ELSE 10)
                     - (IF hasAriaAttributes THEN 0 ELSE 15)
                     - (IF hasProperTypes THEN 0 ELSE 10)
    IN  Max(0, Min(100, score))

\* the analyzedData lists given to the summary of deep_analysis
AnalyzedLists ==
    [kind : {"analyzed"},
     pages : UNION {[1..k -> [accessibility_score : {0, 50, 100}, seo_score : {0, 62, 100}]] :
                        k \in 0..MaxDeepLinks}]

\* deep_analysis scores the accessibility of a fetched page
deepAnalysis_AccessibilityScore ==
    /\ pc = "page"
    /\ seedHtml.kind = "accessibility"
    /\ op' = "deep_analysis"
    /\ resp' = [Response(200, "completed", None) EXCEPT
                   !.source = "html",
                   !.accessibility_score = calculateAccessibilityScore(seedHtml)]
    /\ pc' = "done"
    /\ UNCHANGED <<req, targetUrl, phase, fw, crawlVars, pageFetches, seed2xx, seedHtml>>

\* deep_analysis scores the SEO of a fetched page
deepAnalysis_SEOScore ==
    /\ pc = "page"
    /\ seedHtml.kind = "seo"
    /\ op' = "deep_analysis"
    /\ resp' = [Response(200, "completed", None) EXCEPT
                   !.source = "html", !.seo_score = calculateSEOScore(seedHtml)]
    /\ pc' = "done"
    /\ UNCHANGED <<req, targetUrl, phase, fw, crawlVars, pageFetches, seed2xx, seedHtml>>

\* deep_analysis averages the scores of its analysed pages
deepAnalysis_Summary ==
    /\ pc = "page"
    /\ seedHtml.kind = "analyzed"
    /\ op' = "deep_analysis"
    /\ resp' = [Response(200, "completed", None) EXCEPT
                   !.source = "html", !.successful_pages = Len(seedHtml.pages),
                   !.summary = deepSummary(seedHtml.pages)]
    /\ pc' = "done"
    /\ UNCHANGED <<req, targetUrl, phase, fw, crawlVars, pageFetches, seed2xx, seedHtml>>

\* full_analysis scores the accessibility of its page
fullAnalysis_AccessibilityScore ==
    /\ pc = "page"
    /\ seedHtml.kind = "accessibility"
    /\ op' = "full_analysis"
    /\ resp' = [fullAnalysisResult EXCEPT
                   !.accessibility_score = fullAnalysisAccessibilityScore(seedHtml)]
    /\ pc' = "done"
    /\ UNCHANGED <<req, targetUrl, phase, fw, crawlVars, pageFetches, seed2xx, seedHtml>>

\* form_validation scores the accessibility of a form
formValidation_AccessibilityScore ==
    /\ pc = "page"
    /\ seedHtml.kind = "form"
    /\ op' = "form_validation"
    /\ resp' = [Response(200, "success", "enhanced_crawling") EXCEPT
                   !.source = "html",
                   !.accessibility_score =
                       calculateFormAccessibilityScore(seedHtml.inputs, seedHtml.formHtml)]
    /\ pc' = "done"
    /\ UNCHANGED <<req, targetUrl, phase, fw, crawlVars, pageFetches, seed2xx, seedHtml>>

(***************************************************************************)
(* Labels of form inputs.  An input is what the label lookups read of it:  *)
(* forLabel is the text of the label[for=id] of the page (None: the input  *)
(* has no id or the page no such label), wrapLabel the text of the label   *)
(* element that is its parent (None: it has none), and its placeholder,    *)
(* aria-label and aria-labelledby attributes ("": not set).                *)
(***************************************************************************)
InputElements ==
    [forLabel : {None, "", "Name"}, wrapLabel : {None, "Name "},
     placeholder : {"", "Your name"}, ariaLabel : {"", "Name"},
     ariaLabelledby : {"", "lbl"}]

\* the label analyzeForms gives an input
resolveLabel(input) ==
    LET explicit == IF input.forLabel = None THEN "" ELSE Trim(input.forLabel)
        wrapped == IF explicit = "" /\ input.wrapLabel # None
                   THEN Trim(input.wrapLabel) ELSE explicit
    IN  IF wrapped # "" THEN wrapped
        ELSE IF input.placeholder # "" THEN input.placeholder
        ELSE input.ariaLabel

\* the filter of inputsWithoutLabels in calculateAccessibilityScore(page$)
inputWithoutLabel(input) ==
    LET hasLabel == input.forLabel # None
    IN  ~hasLabel /\ input.ariaLabel = "" /\ input.ariaLabelledby = ""

\* a page of the given inputs and nothing else to deduct for: one h1, a lang
\* attribute, a skip link, no image; unlabelled tells which inputs count as
\* inputs without labels
labelPage(inputs, unlabelled(_)) ==
    [kind |-> "labels", images |-> 0, imagesWithoutAlt |-> 0, h1 |-> 1,
     linksNamed |-> 0, linksTitled |-> 0, linksBare |-> 0,
     inputs |-> Len(inputs),
     inputsWithoutLabels |-> Cardinality({k \in DOMAIN inputs : unlabelled(inputs[k])}),
     lang |-> TRUE, skipLink |-> TRUE]

\* deep_analysis scores the accessibility of a page of form inputs
deepAnalysis_LabelScore ==
    /\ pc = "page"
    /\ seedHtml.kind = "labels"
    /\ op' = "deep_analysis"
    /\ resp' = [Response(200, "completed", None) EXCEPT
                   !.source = "html",
                   !.accessibility_score =
                       calculateAccessibilityScore(labelPage(seedHtml.inputs, inputWithoutLabel))]
    /\ pc' = "done"
    /\ UNCHANGED <<req, targetUrl, phase, fw, crawlVars, pageFetches, seed2xx, seedHtml>>

(***************************************************************************)
(* CMS and analytics detection of full_analysis.  A page is its HTML text, *)
(* put together from the snippets of the signals it holds, and the content *)
(* of its generator meta tag.                                              *)
(***************************************************************************)
\* the signals a page can hold, in the order of their snippets in the page
Signals == <<"wp-content", "wp-includes", "generator", "shopify", "drupal",
             "google-analytics", "googletagmanager", "facebook">>

\* the HTML that carries a signal
Snippet(signal) ==
    CASE signal = "wp-content" -> "<link href=\"/WP-Content/themes/a.css\">"
      [] signal = "wp-includes" -> "<script src=\"/wp-includes/js/a.js\"></script>"
      [] signal = "generator" -> "<meta name=\"generator\" content=\"WordPress 6.4\">"
      [] signal = "shopify" -> "<script src=\"https://cdn.Shopify.com/s.js\"></script>"
      [] signal = "drupal" -> "<script>Drupal.settings = {}</script>"
      [] signal = "google-analytics" -> "<script>gtag('config')</script>"
      [] signal = "googletagmanager" ->
            "<script src=\"https://www.googletagmanager.com/gtm.js\"></script>"
      [] signal = "facebook" -> "<script>fbq('init')</script>"

\* the page that holds the signals of the set
SignalPage(signals) ==
    LET F[i \in 0..Len(Signals)] ==
            IF i = 0 THEN "<html>"
            ELSE IF Signals[i] \in signals THEN F[i - 1] \o Snippet(Signals[i])
            ELSE F[i - 1]
    IN  [kind |-> "signals", signals |-> signals, html |-> F[Len(Signals)] \o "</html>",
         generator |-> IF "generator" \in signals THEN "WordPress 6.4" ELSE None]

SignalPages == {SignalPage(signals) : signals \in SUBSET {Signals[i] : i \in DOMAIN Signals}}

\* the WordPress detection with detected: wp_score >= 25
wordPressDetection_DetectedAt25(htmlLower, generator) ==
    LET wp_score == (IF Includes(htmlLower, "wp-content") THEN 30 ELSE 0)
                    + (IF Includes(htmlLower, "wp-includes") THEN 25 ELSE 0)
                    + (IF generator # None /\ Includes(ToLowerCase(generator), "wordpress")
                       THEN 40 ELSE 0)
    IN  IF wp_score > 0
        THEN <<[name |-> "WordPress", confidence |-> Min(wp_score, 100),
                detected |-> wp_score >= 25]>>
        ELSE <<>>

\* the WordPress detection: the entry of detected_systems, if any
wordPressDetection(htmlLower, generator) ==
    LET wp_score == (IF Includes(htmlLower, "wp-content") THEN 30 ELSE 0)
                    + (IF Includes(htmlLower, "wp-includes") THEN 25 ELSE 0)
                    + (IF generator # None /\ Includes(ToLowerCase(generator), "wordpress")
                       THEN 40 ELSE 0)
    IN  IF wp_score > 0
        THEN <<[name |-> "WordPress", confidence |-> Min(wp_score, 100),
                detected |-> wp_score >= 30]>>
        ELSE <<>>

\* detected_systems, its entries in the order of their insertion
detectedSystems(page) ==
    LET htmlLower == ToLowerCase(page.html)
    IN  wordPressDetection(htmlLower, page.generator)
        \o (IF Includes(htmlLower, "shopify") \/ Includes(htmlLower, "cdn.shopify")
            THEN <<[name |-> "Shopify", confidence |-> 85, detected |-> TRUE]>> ELSE <<>>)
        \o (IF Includes(htmlLower, "drupal")
            THEN <<[name |-> "Drupal", confidence |-> 80, detected |-> TRUE]>> ELSE <<>>)

\* analytics_tools, its entries in the order of their insertion
analyticsTools(page) ==
    LET htmlLower == ToLowerCase(page.html)
    IN  (IF Includes(htmlLower, "google-analytics") \/ Includes(htmlLower, "gtag(")
            \/ Includes(htmlLower, "ga(")
         THEN <<[name |-> "Google Analytics", confidence |-> 90, detected |-> TRUE]>>
         ELSE <<>>)
        \o (IF Includes(htmlLower, "googletagmanager")
            THEN <<[name |-> "Google Tag Manager", confidence |-> 90, detected |-> TRUE]>>
            ELSE <<>>)
        \o (IF Includes(htmlLower, "facebook.net") \/ Includes(htmlLower, "fbq(")
            THEN <<[name |-> "Facebook Pixel", confidence |-> 85, detected |-> TRUE]>>
            ELSE <<>>)

\* Object.values(systems).filter((sys) => sys.detected).length
totalDetected(systems) == Len(SelectSeq(systems, LAMBDA sys : sys.detected))

\* primary_cms as the first key of detected_systems
primaryCms_FirstReported(systems) ==
    IF systems = <<>> THEN None ELSE systems[1].name

\* Object.keys(detected_systems).find((cms) => detected_systems[cms].detected) || null
primaryCms(systems) ==
    LET found == SelectSeq(systems, LAMBDA sys : sys.detected)
    IN  IF found = <<>> THEN None ELSE found[1].name

\* full_analysis runs its detections over the page
fullAnalysis_Detection ==
    /\ pc = "page"
    /\ seedHtml.kind = "signals"
    /\ op' = "full_analysis"
    /\ LET systems == detectedSystems(seedHtml)
           tools == analyticsTools(seedHtml)
       IN  resp' = [fullAnalysisResult EXCEPT
                       !.cms_detected = [primary_cms |-> primaryCms(systems),
                                         detected_systems |-> systems,
                                         total_detected |-> totalDetected(systems)],
                       !.analytics_tools = [detected_tools |-> tools,
                                            total_detected |-> totalDetected(tools)]]
    /\ pc' = "done"
    /\ UNCHANGED <<req, targetUrl, phase, fw, crawlVars, pageFetches, seed2xx, seedHtml>>

(***************************************************************************)
(* Form classification of form_validation.                                 *)
(***************************************************************************)
\* the types of the fields of a classified form
FormInputTypes == <<"email", "password", "text", "textarea", "search", "date">>

\* the inner HTML of a classified form
FormTexts == {"<input>",
              "<h2>Login to your account</h2>",
              "<button>Sign In</button>",
              "<p>Register or login</p>",
              "<p>Sign up to create account</p>",
              "<h3>Contact us</h3><label>Message</label>",
              "<p>Get in touch</p>",
              "<p>Subscribe to our Newsletter</p>",
              "<label>Search</label>",
              "<p>Billing address</p>",
              "<p>Reservation</p>",
              "<p>Request a quote</p>",
              "<p>Open a support ticket</p>",
              "<p>Your feedback</p>"}

\* the pages a classified form can be on
FormPageUrls == {"https://x.com/p1", "https://x.com/login", "https://x.com/contact"}

\* the field lists of 2 to n fields, the types in the order of FormInputTypes
FormInputLists(n) ==
    LET ranks == UNION {[1..k -> DOMAIN FormInputTypes] : k \in 2..n}
        sorted == {r \in ranks : \A i \in 1..(Len(r) - 1) : r[i] <= r[i + 1]}
    IN  {formInputs([i \in DOMAIN r |-> FormInputTypes[r[i]]]) : r \in sorted}

\* analyzeForms classifies a form of 2 or more inputs
formValidation_ClassifyForm ==
    /\ pc = "page"
    /\ seedHtml.kind = "form"
    /\ op' = "form_validation"
    /\ resp' = [Response(200, "success", "enhanced_crawling") EXCEPT
                   !.source = "html", !.forms_found = 1,
                   !.detailed_forms =
                       <<[page_url |-> seedHtml.pageUrl, form_index |-> 0,
                          input_count |-> Len(seedHtml.inputs), inputs |-> seedHtml.inputs,
                          form_classification |->
                              classifyForm(seedHtml.inputs, seedHtml.formHtml,
                                           seedHtml.pageUrl)]>>]
    /\ pc' = "done"
    /\ UNCHANGED <<req, targetUrl, phase, fw, crawlVars, pageFetches, seed2xx, seedHtml>>

(***************************************************************************)
(* Link extraction of quick_links and full_analysis.  An anchor of a page  *)
(* is its href as written, its markup and its text: "quoted" is            *)
(* <a href="h">text</a>, "unquoted" is <a href=h>text</a>, "nested" is     *)
(* <a href="h"><b>text</b></a>.  A page whose anchors are hidden has them  *)
(* inside a comment or a noscript element, where the document tree shows   *)
(* no a element and the raw text still holds the tags.                     *)
(***************************************************************************)
\* the site of the page whose links are extracted
BaseUrl == PageUrl(0)

\* the hrefs an anchor can carry
LinkHrefs == {"/p1", "https://x.com/p1", "https://y.com/q", "#top", "http://["}

Markups == {"quoted", "unquoted", "nested"}

\* the i-th anchor of a page has text "t<i>"
AnchorText(i) == "t" \o ToString(i)

\* the anchor lists of at most n anchors
AnchorLists(n) ==
    UNION {[1..k -> [href : LinkHrefs, markup : Markups]] : k \in 0..n}

\* !href || href.startsWith("#") || href.startsWith("javascript:") || href.startsWith("mailto:")
skippedHref(href) ==
    \/ href = ""
    \/ StartsWith(href, "#")
    \/ StartsWith(href, "javascript:")
    \/ StartsWith(href, "mailto:")

\* linkDomain === baseDomain, tested on the protocol instead of the hostname
sameDomain_Protocol(url, base) ==
    StartsWith(url, "https://") = StartsWith(base, "https://")

\* linkDomain === baseDomain
sameDomain(url, base) == Hostname(url) = Hostname(base)

\* text || "No text"
orNoText(text) == IF text = "" THEN "No text" ELSE text

\* if (!list.some((link) => link.url === absoluteUrl)) list.push(linkData)
pushUnique(list, linkData) ==
    IF \E k \in DOMAIN list : list[k].url = linkData.url THEN list
    ELSE Append(list, linkData)

NoLinks == [internal |-> <<>>, external |-> <<>>]

\* $("a[href]").each(...): the structured extraction over the anchors the
\* document tree shows
structuredLinks(anchors, base) ==
    LET F[i \in 0..Len(anchors)] ==
            IF i = 0 THEN NoLinks
            ELSE LET href == anchors[i].href
                     url == IF skippedHref(href) THEN None ELSE resolveUrl(href, base)
                     linkData == [url |-> url, text |-> AnchorText(i)]
                 IN  IF url = None THEN F[i - 1]
                     ELSE IF sameDomain(url, base)
                     THEN [F[i - 1] EXCEPT !.internal = pushUnique(@, linkData)]
                     ELSE [F[i - 1] EXCEPT !.external = pushUnique(@, linkData)]
    IN  F[Len(anchors)]

\* what linkPatterns[p] captures of anchor i: match[1] and match[2], None
\* for both when the pattern does not match the anchor
patternMatch(p, a, i) ==
    CASE p = 1 /\ a.markup = "quoted" -> [href |-> a.href, text |-> AnchorText(i)]
      [] p = 2 /\ a.markup = "quoted" ->
            [href |-> "\"" \o a.href \o "\"", text |-> AnchorText(i)]
      [] p = 2 /\ a.markup = "unquoted" -> [href |-> a.href, text |-> AnchorText(i)]
      [] p = 3 /\ a.markup \in {"quoted", "nested"} -> [href |-> a.href, text |-> ""]
      [] OTHER -> [href |-> None, text |-> None]

\* extractLinksFromText(html, baseUrl): the three patterns one after the
\* other over the whole text, with one foundUrls set for all of them
extractLinksFromText(anchors, base) ==
    LET n == Len(anchors)
        \* step k is pattern ((k - 1) div n) + 1 at anchor ((k - 1) mod n) + 1
        F[k \in 0..(3 * n)] ==
            IF k = 0 THEN [found |-> {}, links |-> NoLinks]
            ELSE LET i == ((k - 1) % n) + 1
                     m == patternMatch(((k - 1) \div n) + 1, anchors[i], i)
                     url == IF m.href = None \/ skippedHref(m.href) THEN None
                            ELSE resolveUrl(m.href, base)
                     linkData == [url |-> url, text |-> orNoText(m.text)]
                     prev == F[k - 1]
                 IN  IF url = None \/ url \in prev.found THEN prev
                     ELSE [found |-> prev.found \cup {url},
                           links |-> IF sameDomain(url, base)
                                     THEN [prev.links EXCEPT !.internal = Append(@, linkData)]
                                     ELSE [prev.links EXCEPT !.external = Append(@, linkData)]]
    IN  F[3 * n].links

\* the anchors cheerio selects with $("a[href]")
visibleAnchors(html) == IF html.hidden THEN <<>> ELSE html.anchors

\* the response of quick_links for a page that was read: the links of the
\* first tier that finds one, the final fallback when neither does
quickLinksResponse(structured, pattern, url, total) ==
    LET r == quickLinksExtract(url, Len(structured.internal) + Len(structured.external),
                               Len(pattern.internal) + Len(pattern.external), total)
        found == IF r.method = "cheerio_parsing" THEN structured
                 ELSE IF r.method = "pattern_extraction" THEN pattern
                 ELSE NoLinks
    IN  [r EXCEPT !.internal_links = found.internal, !.external_links = found.external]

\* results.links of full_analysis
fullAnalysisLinks(html, url) ==
    LET links == structuredLinks(visibleAnchors(html), url)
    IN  [fullAnalysisResult EXCEPT
            !.internal_links = links.internal, !.external_links = links.external,
            !.total = Len(links.internal) + Len(links.external)]

\* the links of the structured tier of quick_links: none when it throws
structuredTier(html, url) ==
    IF html.tiers[1] = -1 THEN NoLinks ELSE structuredLinks(visibleAnchors(html), url)

\* quick_links over a page that is given
linkExtraction_QuickLinks ==
    /\ pc = "page"
    /\ op' = "quick_links"
    /\ LET structured == structuredTier(seedHtml, targetUrl)
           pattern == extractLinksFromText(seedHtml.anchors, targetUrl)
           none == Len(structured.internal) + Len(structured.external)
                     + Len(pattern.internal) + Len(pattern.external) = 0
       IN  \* generateFallbackData draws its numbers only when it is called
           \E total \in (IF none THEN EstimatedTotals ELSE {0}) :
               resp' = quickLinksResponse(structured, pattern, targetUrl, total)
    /\ pc' = "done"
    /\ UNCHANGED <<req, targetUrl, phase, fw, crawlVars, pageFetches, seed2xx, seedHtml>>

\* full_analysis over a page that is given
linkExtraction_FullAnalysis ==
    /\ pc = "page"
    /\ seedHtml.tiers[1] # -1
    /\ op' = "full_analysis"
    /\ resp' = fullAnalysisLinks(seedHtml, targetUrl)
    /\ pc' = "done"
    /\ UNCHANGED <<req, targetUrl, phase, fw, crawlVars, pageFetches, seed2xx, seedHtml>>

Next ==
    \/ networkWait_Stalls
    \/ fetchWithStrategies_Delay
    \/ fetchWithStrategies_Request
    \/ fetchWithStrategies_Throw
    \/ quickLinks_POST
    \/ quickLinks_Page
    \/ quickLinks_FetchFailed
    \/ formValidation_POST
    \/ formValidation_FetchFailed
    \/ formValidation_SeedPage
    \/ formValidation_CrawlPage
    \/ formValidation_SubPage
    \/ formValidation_SubPageFailed
    \/ formValidation_Finish
    \/ fullAnalysis_POST
    \/ fullAnalysis_Fetch
    \/ fullAnalysis_Page
    \/ deepAnalysis_POST
    \/ deepAnalysis_SeedFetch
    \/ deepAnalysis_SeedPage
    \/ deepAnalysis_PageFetch
    \/ deepAnalysis_Page
    \/ deepAnalysis_Finish

Spec == Init /\ [][Next]_vars

\* the handler runs on: every timer fires and every await that settles is
\* resumed
SpecLive == Init /\ [][Next]_vars /\ WF_vars(Next)

(***************************************************************************)
(* The analysis functions over given pages: the request has come in for    *)
(* the root page of x.com, the page was fetched and read, and what it      *)
(* holds is drawn from the bounded sets of the function under study.       *)
(***************************************************************************)
\* the handler state in which a fetched page is analysed
PageFetched ==
    /\ op = None
    /\ req = [json |-> TRUE, url |-> BaseUrl]
    /\ targetUrl = BaseUrl
    /\ pc = "page"
    /\ phase = None
    /\ fw = NoFetch
    /\ crawledPages = 0
    /\ successfulPages = 0
    /\ processedUrls = {}
    /\ allForms = <<>>
    /\ internalLinks = <<>>
    /\ idx = 0
    /\ analyzed = 0
    /\ failed = 0
    /\ analyzedData = <<>>
    /\ failedData = <<>>
    /\ pageFetches = <<BaseUrl>>
    /\ seed2xx = TRUE
    /\ resp = NoResponse

InitLinks ==
    /\ PageFetched
    /\ \E a \in AnchorLists(MaxAnchors), h \in BOOLEAN, structured \in {-1, 0} :
          \* structured = -1: the structured tier throws on the page
          seedHtml = [NoHtml EXCEPT !.read = TRUE, !.anchors = a, !.hidden = h,
                                    !.tiers = <<structured, 0>>]

NextLinks ==
    \/ linkExtraction_QuickLinks
    \/ linkExtraction_FullAnalysis

SpecLinks == InitLinks /\ [][NextLinks]_vars

InitScores ==
    /\ PageFetched
    /\ seedHtml \in AccessibilityPages \cup SeoPages \cup FormPages \cup AnalyzedLists

NextScores ==
    \/ deepAnalysis_AccessibilityScore
    \/ deepAnalysis_SEOScore
    \/ deepAnalysis_Summary
    \/ fullAnalysis_AccessibilityScore
    \/ formValidation_AccessibilityScore

SpecScores == InitScores /\ [][NextScores]_vars

InitLabels ==
    /\ PageFetched
    /\ seedHtml \in [kind : {"labels"},
                      inputs : UNION {[1..k -> InputElements] : k \in 1..MaxElements}]

NextLabels == deepAnalysis_LabelScore

SpecLabels == InitLabels /\ [][NextLabels]_vars

InitDetection ==
    /\ PageFetched
    /\ seedHtml \in SignalPages

NextDetection == fullAnalysis_Detection

SpecDetection == InitDetection /\ [][NextDetection]_vars

InitForms ==
    /\ PageFetched
    /\ seedHtml \in [kind : {"form"}, inputs : FormInputLists(MaxFormInputs),
                      formHtml : FormTexts, pageUrl : FormPageUrls]

NextForms == formValidation_ClassifyForm

SpecForms == InitForms /\ [][NextForms]_vars

(***************************************************************************)
(* Two concurrent crawl requests for the site x.com.  Every variable of    *)
(* a handler holds one value per request: they are locals of POST.  A call *)
(* of fetchWithStrategies or fetch is one wait here: fw is the set of the  *)
(* URLs of a request whose fetch has been started and has not settled.     *)
(***************************************************************************)
Sessions == {1, 2}

\* the visited set kept in one Set of the module, for all requests
sessionVisited_Shared(processed, s) == UNION {processed[t] : t \in Sessions}

\* the processedUrls of request s
sessionVisited(processed, s) == processed[s]

\* the links the loop of request s runs over
sessionCandidates(s) ==
    IF op[s] = "form_validation" THEN crawlCandidates(internalLinks[s])
    ELSE linksToAnalyze(internalLinks[s])

\* the loop of request s is over: no link left, or its break
sessionLoopEnds(s) ==
    \/ idx[s] > Len(sessionCandidates(s))
    \/ /\ op[s] = "form_validation"
       /\ idx[s] <= Len(sessionCandidates(s))
       /\ crawlBreak(sessionCandidates(s)[idx[s]], sessionVisited(processedUrls, s),
                     crawledPages[s])

sessionUnchanged == <<req, targetUrl, allForms, analyzed, analyzedData, failedData,
                      seed2xx, seedHtml>>

\* a request arrives and the fetch of its seed page starts
concurrent_POST(s) ==
    /\ pc[s] = "idle"
    /\ \E o \in {"form_validation", "deep_analysis"} : op' = [op EXCEPT ![s] = o]
    /\ pc' = [pc EXCEPT ![s] = "fetch"]
    /\ phase' = [phase EXCEPT ![s] = "seed"]
    /\ fw' = [fw EXCEPT ![s] = @ \cup {BaseUrl}]
    /\ pageFetches' = [pageFetches EXCEPT ![s] = <<BaseUrl>>]
    /\ UNCHANGED <<sessionUnchanged, crawledPages, successfulPages, processedUrls,
                   internalLinks, idx, failed, resp>>

\* the fetch of request s settles and the page is dealt with
concurrent_Settled(s) ==
    /\ pc[s] = "fetch"
    /\ fw' = [fw EXCEPT ![s] = {}]
    /\ \E ok \in BOOLEAN :
        IF phase[s] = "seed"
        THEN IF ok
             THEN \E n \in 0..MaxSessionLinks :
                  /\ internalLinks' =
                        [internalLinks EXCEPT ![s] =
                            IF op[s] = "form_validation"
                            THEN extractLinksFromHtml(Anchors(n, 0, FALSE))
                            ELSE deepInternalLinks(Anchors(n, 0, FALSE), BaseUrl)]
                  /\ crawledPages' = [crawledPages EXCEPT ![s] = 1]
                  /\ successfulPages' =
                        [successfulPages EXCEPT ![s] = IF op[s] = "form_validation" THEN 1 ELSE 0]
                  /\ processedUrls' = [processedUrls EXCEPT ![s] = {BaseUrl}]
                  /\ idx' = [idx EXCEPT ![s] = 1]
                  /\ pc' = [pc EXCEPT ![s] = "crawl"]
                  /\ UNCHANGED <<failed, resp>>
             ELSE /\ resp' = [resp EXCEPT ![s] =
                                IF op[s] = "form_validation"
                                THEN formValidationFallback(BaseUrl, 5, 2)
                                ELSE deepAnalysisError]
                  /\ pc' = [pc EXCEPT ![s] = "done"]
                  /\ UNCHANGED <<internalLinks, crawledPages, successfulPages,
                                 processedUrls, idx, failed>>
        ELSE /\ crawledPages' = [crawledPages EXCEPT ![s] = @ + 1]
             /\ successfulPages' = [successfulPages EXCEPT ![s] = IF ok THEN @ + 1 ELSE @]
             /\ failed' = [failed EXCEPT ![s] = IF ok THEN @ ELSE @ + 1]
             /\ processedUrls' =
                    [processedUrls EXCEPT ![s] =
                        IF op[s] = "form_validation"
                        THEN @ \cup {sessionCandidates(s)[idx[s]]} ELSE @]
             /\ idx' = [idx EXCEPT ![s] = @ + 1]
             /\ pc' = [pc EXCEPT ![s] = "crawl"]
             /\ UNCHANGED <<internalLinks, resp>>
    /\ UNCHANGED <<sessionUnchanged, op, phase, pageFetches>>

\* the loop of request s goes on to its next link and starts the fetch
concurrent_NextPage(s) ==
    /\ pc[s] = "crawl"
    /\ ~sessionLoopEnds(s)
    /\ fw' = [fw EXCEPT ![s] = @ \cup {sessionCandidates(s)[idx[s]]}]
    /\ pageFetches' = [pageFetches EXCEPT ![s] = Append(@, Href(sessionCandidates(s)[idx[s]]))]
    /\ phase' = [phase EXCEPT ![s] = "sub"]
    /\ pc' = [pc EXCEPT ![s] = "fetch"]
    /\ UNCHANGED <<sessionUnchanged, op, crawledPages, successfulPages, processedUrls,
                   internalLinks, idx, failed, resp>>

\* the loop of request s is over and its response is sent
concurrent_Finish(s) ==
    /\ pc[s] = "crawl"
    /\ sessionLoopEnds(s)
    /\ resp' = [resp EXCEPT ![s] =
                    IF op[s] = "form_validation"
                    THEN formValidationResult(crawledPages[s], successfulPages[s], <<>>)
                    ELSE [Response(200, "completed", None) EXCEPT
                             !.source = "html", !.total = Len(internalLinks[s]),
                             !.total_pages_crawled = successfulPages[s] + failed[s],
                             !.successful_pages = successfulPages[s]]]
    /\ pc' = [pc EXCEPT ![s] = "done"]
    /\ UNCHANGED <<sessionUnchanged, op, phase, fw, crawledPages, successfulPages,
                   processedUrls, internalLinks, idx, failed, pageFetches>>

InitSessions ==
    /\ op = [s \in Sessions |-> None]
    /\ pc = [s \in Sessions |-> "idle"]
    /\ phase = [s \in Sessions |-> None]
    /\ fw = [s \in Sessions |-> {}]
    /\ crawledPages = [s \in Sessions |-> 0]
    /\ successfulPages = [s \in Sessions |-> 0]
    /\ failed = [s \in Sessions |-> 0]
    /\ processedUrls = [s \in Sessions |-> {}]
    /\ internalLinks = [s \in Sessions |-> <<>>]
    /\ idx = [s \in Sessions |-> 0]
    /\ pageFetches = [s \in Sessions |-> <<>>]
    /\ resp = [s \in Sessions |-> NoResponse]
    /\ req = [json |-> TRUE, url |-> BaseUrl]
    /\ targetUrl = BaseUrl
    /\ allForms = <<>>
    /\ analyzed = 0
    /\ analyzedData = <<>>
    /\ failedData = <<>>
    /\ seed2xx = FALSE
    /\ seedHtml = NoHtml

NextSessions ==
    \E s \in Sessions :
        \/ concurrent_POST(s)
        \/ concurrent_Settled(s)
        \/ concurrent_NextPage(s)
        \/ concurrent_Finish(s)

SpecSessions == InitSessions /\ [][NextSessions]_vars

(***************************************************************************)
(* Properties.                                                             *)
(***************************************************************************)
Responded == resp # NoResponse

SeedFetchers == {"quick_links", "form_validation"}

\* the url of the request can be parsed, in the way the operation parses it
WellFormedUrl ==
    /\ op # None
    /\ req.json
    /\ req.url # ""
    /\ Parseable(IF op = "deep_analysis" THEN req.url ELSE PrefixedUrl(req.url))

\* the url of the request is missing or cannot be parsed
MalformedUrl ==
    /\ op # None
    /\ req.json
    /\ ~WellFormedUrl

\* fetchWithStrategies has thrown for the seed page
SeedExhausted == phase = "seed" /\ fw.result = "throw"

C2_MalformedUrlIs400 ==
    (Responded /\ MalformedUrl) =>
        /\ resp.http = 400
        /\ resp.error
        /\ resp.status = None
        /\ fw.requests = 0
        /\ pageFetches = <<>>

\* C3: quick_links and form_validation, when fetchWithStrategies has thrown
\* for a seed url that can be requested (every request for the seed page
\* failed), answer HTTP 200 with method "intelligent_estimation" and a note,
\* built from made-up data.
C3_SeedFailureIsEstimation ==
    (Responded /\ op \in SeedFetchers /\ SeedExhausted /\ Parseable(targetUrl)) =>
        /\ resp.http = 200
        /\ resp.status = "success"
        /\ resp.method = "intelligent_estimation"
        /\ resp.note
        /\ resp.source = "synthetic"
        /\ ~seed2xx

\* C3 witness: quick_links has answered after nine failed requests, the
\* last one an HTTP 403.
C3_Witness ==
    /\ Responded /\ op = "quick_links"
    /\ SeedExhausted /\ fw.requests = 9 /\ fw.lastOutcome = "403"
    /\ resp.method = "intelligent_estimation"

\* C4 as stated: no quick_links or form_validation response has method
\* "intelligent_estimation" in a run where a request for the seed page
\* returned 2xx, and a page that was read but from which neither tier
\* recovers a link is answered with zero extracted links.
C4_EstimationOnlyAfterExhaustion ==
    (Responded /\ op \in SeedFetchers) =>
        /\ resp.method = "intelligent_estimation" => ~seed2xx
        /\ (op = "quick_links" /\ seedHtml.read
                /\ seedHtml.tiers[1] <= 0 /\ seedHtml.tiers[2] = 0) =>
              (resp.source = "html" /\ resp.total = 0)

\* C5: in every quick_links and form_validation response, made-up links or
\* forms come with method "intelligent_estimation" or "error_fallback", and
\* a response with method cheerio_parsing, pattern_extraction or
\* enhanced_crawling holds exactly what was extracted from pages fetched
\* and read during the request.
C5_FabricatedDataLabelled ==
    (Responded /\ op \in SeedFetchers) =>
        /\ resp.source = "synthetic" =>
              resp.method \in {"intelligent_estimation", "error_fallback"}
        /\ resp.method = "cheerio_parsing" =>
              /\ resp.source = "html" /\ seedHtml.read
              /\ resp.total = seedHtml.tiers[1]
        /\ resp.method = "pattern_extraction" =>
              /\ resp.source = "html" /\ seedHtml.read
              /\ resp.total = seedHtml.tiers[2]
        /\ resp.method = "enhanced_crawling" =>
              /\ resp.source = "html" /\ seedHtml.read
              /\ resp.detailed_forms = formsWithMultipleInputs(allForms)
              /\ \A k \in DOMAIN resp.detailed_forms :
                    \E j \in DOMAIN pageFetches :
                        pageFetches[j] = Href(resp.detailed_forms[k].page_url)

\* C5 witness: an estimation carrying made-up links, sent although the seed
\* page had been fetched and read.
C5_Witness ==
    /\ Responded /\ op = "quick_links" /\ seedHtml.read
    /\ resp.source = "synthetic" /\ resp.method = "intelligent_estimation"

\* C6: a call of fetchWithStrategies returns on its first 2xx response: when
\* the k-th request is the first to return 2xx the call has made exactly k
\* requests, has returned, and makes no further request.
C6_FirstSuccessReturns ==
    /\ fw.firstOk > 0 =>
          /\ fw.result = "response"
          /\ fw.requests = fw.firstOk
          /\ fw.lastOutcome = "ok"
          /\ pc # "fetch"
    /\ fw.result = "response" => fw.firstOk > 0

\* C6 witness: 2xx on the mobile strategy of the first attempt, two requests.
C6_Witness ==
    /\ fw.result = "response"
    /\ fw.requests = 2 /\ fw.lastStrategy = "mobile" /\ fw.attempt = 0

\* C7: while every request of a call fails, request k is made with strategy
\* ((k - 1) mod 3) + 1 of standard, mobile, crawler in attempt (k - 1) div 3;
\* the call throws only after maxRetries x 3 requests, each of them failed,
\* and throws the error of the last request: 9 requests for a seed page, 6
\* for a crawl sub-page.
C7_ExhaustsEveryStrategy ==
    /\ (fw.requests > 0 /\ fw.firstOk = 0) =>
          /\ fw.lastStrategy = strategies[((fw.requests - 1) % 3) + 1]
          /\ fw.requests = fw.attempt * 3 + (fw.sIdx - 1)
          /\ fw.lastError = ErrorOf(fw.lastOutcome)
    /\ fw.result = "throw" =>
          /\ fw.firstOk = 0
          /\ fw.requests = fw.maxRetries * 3
          /\ fw.lastError = ErrorOf(fw.lastOutcome)
          /\ fw.lastStrategy = "crawler"
          /\ phase = "seed" => fw.requests = 9
          /\ phase = "sub" => fw.requests = 6

\* C7 witness: the call for a sub-page has thrown after six requests, the
\* last one aborted by its timeout.
C7_Witness ==
    /\ fw.result = "throw" /\ phase = "sub"
    /\ fw.requests = 6 /\ fw.lastError = "AbortError"

\* C8 as stated: when the seed page of form_validation was fetched and holds
\* at least 10 distinct same-origin links, total_pages_crawled is 10.
C8_CrawlBudgetReached ==
    (Responded /\ op = "form_validation" /\ seedHtml.read /\ seedHtml.links >= maxPages) =>
        resp.total_pages_crawled = maxPages

\* C9 as stated: within one form_validation or deep_analysis session no
\* absolute URL is fetched as a page more than once, the seed included.
C9_NoUrlFetchedTwice ==
    op \in {"form_validation", "deep_analysis"} =>
        \A i, j \in DOMAIN pageFetches :
            i # j => pageFetches[i] # pageFetches[j]

\* C10: in every form_validation response produced by crawling,
\* total_pages_crawled >= successful_pages and the difference is the number
\* of sub-pages whose fetch (or body read) failed; the same holds of the
\* counters at every turn of the crawl loop.
C10_CrawledMinusSuccessful ==
    /\ (op = "form_validation" /\ pc = "crawl") =>
          /\ crawledPages >= successfulPages
          /\ crawledPages - successfulPages = failed
    /\ (Responded /\ op = "form_validation" /\ resp.method = "enhanced_crawling") =>
          /\ resp.total_pages_crawled >= resp.successful_pages
          /\ resp.total_pages_crawled - resp.successful_pages = failed
          /\ resp.successful_pages >= 1

\* C10 witness: a crawl response in which two sub-pages failed and at least
\* one sub-page succeeded.
C10_Witness ==
    /\ Responded /\ op = "form_validation" /\ resp.method = "enhanced_crawling"
    /\ failed = 2
    /\ resp.successful_pages >= 2
    /\ resp.total_pages_crawled = resp.successful_pages + 2

\* C12 as stated: deep_analysis holds a link of the seed page in its list of
\* internal links exactly when the hostname of the link's absolute URL is the
\* hostname of the seed URL, and every sub-page it fetches is on the
\* hostname of the seed URL.
C12_InternalIffSameHostname ==
    (op = "deep_analysis" /\ seedHtml.read) =>
        /\ \A k \in 2..Len(pageFetches) : Hostname(pageFetches[k]) = Hostname(targetUrl)
        /\ \A i \in DOMAIN seedHtml.hrefs :
              LET url == resolveUrl(seedHtml.hrefs[i], targetUrl)
              IN  (\E k \in DOMAIN internalLinks :
                      resolveUrl(internalLinks[k], targetUrl) = url)
                  <=> Hostname(url) = Hostname(targetUrl)

\* C14: every entry of detailed_forms of every form_validation response
\* (crawl, estimation and error fallback) has input_count >= 2, and in a
\* crawl response input_count is the length of the entry's inputs list; the
\* same holds of every form the crawl has collected so far.
C14_DetailedFormsHaveTwoInputs ==
    /\ (Responded /\ op = "form_validation") =>
          \A k \in DOMAIN resp.detailed_forms :
              /\ resp.detailed_forms[k].input_count >= 2
              /\ resp.method = "enhanced_crawling" =>
                    resp.detailed_forms[k].input_count = Len(resp.detailed_forms[k].inputs)
    /\ op = "form_validation" =>
          \A k \in DOMAIN allForms :
              /\ allForms[k].input_count >= 2
              /\ allForms[k].input_count = Len(allForms[k].inputs)

\* C14 witness: a crawl response with the three-field form of the seed page
\* (its search box left out) and the form of a sub-page.
C14_Witness ==
    /\ Responded /\ op = "form_validation" /\ resp.method = "enhanced_crawling"
    /\ Len(resp.detailed_forms) = 2
    /\ resp.detailed_forms[1].form_index = 1
    /\ resp.detailed_forms[1].input_count = 3
    /\ resp.detailed_forms[2].input_count = 2

\* a score has been computed for a page of the given kind
Scored(kind) == pc = "done" /\ Responded /\ seedHtml.kind = kind

\* C15: every accessibility score (per page in deep_analysis, of
\* full_analysis, per form in form_validation), every SEO score and both
\* averages of the deep_analysis summary lie in [0,100], whatever the counts
\* of images, links, inputs and headings.
C15_ScoresBounded ==
    /\ (Scored("accessibility") \/ Scored("form")) => resp.accessibility_score \in 0..100
    /\ Scored("seo") => resp.seo_score \in 0..100
    /\ Scored("analyzed") =>
          /\ 0 <= resp.summary.average_accessibility_score.num
          /\ resp.summary.average_accessibility_score.num
                <= 100 * resp.summary.average_accessibility_score.den
          /\ 0 <= resp.summary.average_seo_score.num
          /\ resp.summary.average_seo_score.num <= 100 * resp.summary.average_seo_score.den

\* C15 witness: deep_analysis has scored a page on which every accessibility
\* deduction applies in full (105 points), and the score is 0.
C15_Witness ==
    /\ Scored("accessibility") /\ op = "deep_analysis"
    /\ seedHtml.images > 0 /\ seedHtml.imagesWithoutAlt = seedHtml.images
    /\ seedHtml.h1 = 0
    /\ seedHtml.linksBare > 0 /\ seedHtml.linksNamed = 0 /\ seedHtml.linksTitled = 0
    /\ seedHtml.inputs > 0 /\ seedHtml.inputsWithoutLabels = seedHtml.inputs
    /\ ~seedHtml.lang /\ ~seedHtml.skipLink
    /\ resp.accessibility_score = 0

\* the deductions of the SEO score as the specification lists them, each
\* times the number of images (1 when the page has none)
SeoDeductions(p) ==
    LET n == Max(p.images, 1)
    IN  << n * (IF p.title = 0 THEN 20 ELSE IF p.title \notin 30..60 THEN 10 ELSE 0),
           n * (IF p.metaDescription = 0 THEN 15
                ELSE IF p.metaDescription \notin 120..160 THEN 8 ELSE 0),
           n * (CASE p.h1 = 0 -> 15
                  [] p.h1 > 1 -> 10
                  [] OTHER -> IF p.h1Text \notin 20..70 THEN 5 ELSE 0),
           n * (IF p.headings[1] = 0 /\ p.headings[2] + p.headings[3] > 0 THEN 8 ELSE 0),
           15 * p.imagesWithoutAlt,
           n * (IF p.internalLinks = 0 THEN 10 ELSE 0),
           n * (IF p.viewport THEN 0 ELSE 8),
           n * (IF p.canonical THEN 0 ELSE 5),
           n * (IF p.ogTags THEN 0 ELSE 5),
           n * (IF p.structuredData THEN 0 ELSE 5) >>

\* the page of the scenario: it fails the h1, the meta description and the
\* viewport checks and no other
SeoScenarioPage(p) ==
    /\ p.h1 = 0 /\ p.metaDescription = 0 /\ ~p.viewport
    /\ p.title \in 30..60
    /\ ~(p.headings[1] = 0 /\ p.headings[2] + p.headings[3] > 0)
    /\ p.imagesWithoutAlt = 0 /\ p.internalLinks > 0
    /\ p.canonical /\ p.ogTags /\ p.structuredData

\* C19: the SEO score of deep_analysis is max(0, round(100 - D)) with D the
\* sum of the ten deductions of the specification, each counted on its own,
\* and the page that fails only the h1, meta description and viewport checks
\* scores 62.
C19_SeoScoreIsAdditive ==
    Scored("seo") =>
        LET n == Max(seedHtml.images, 1)
            d == SeoDeductions(seedHtml)
            D == d[1] + d[2] + d[3] + d[4] + d[5] + d[6] + d[7] + d[8] + d[9] + d[10]
        IN  /\ resp.seo_score = Max(0, RoundRatio(100 * n - D, n))
            /\ SeoScenarioPage(seedHtml) => resp.seo_score = 62

\* C19 witness: the page of the scenario has been scored 62.
C19_Witness ==
    /\ Scored("seo") /\ SeoScenarioPage(seedHtml)
    /\ resp.seo_score = 62

\* C20 as stated: full_analysis and deep_analysis report for the same page
\* the same accessibility score, the additive formula of the specification.
C20_OneAccessibilityFormula ==
    (Scored("accessibility") /\ op \in {"full_analysis", "deep_analysis"}) =>
        resp.accessibility_score = calculateAccessibilityScore(seedHtml)

\* the entry of a system in a list of reported systems, as a set
EntryOf(systems, name) == {systems[k] : k \in {j \in DOMAIN systems : systems[j].name = name}}

\* 1 when the page holds the signal, else 0
Holds(signal) == IF signal \in seedHtml.signals THEN 1 ELSE 0

\* C17: every system and tool full_analysis reports has a confidence in
\* [0,100] and detected == (confidence >= 30); WordPress is reported when one
\* of its signals matches, with confidence min(100, 30 wp-content +
\* 25 wp-includes + 40 generator); total_detected counts the detected
\* entries, so a page matching only wp-includes has WordPress with
\* confidence 25, detected false, and total_detected 0.
C17_ConfidenceAndThreshold ==
    Scored("signals") =>
        LET systems == resp.cms_detected.detected_systems
            tools == resp.analytics_tools.detected_tools
            wp == 30 * Holds("wp-content") + 25 * Holds("wp-includes") + 40 * Holds("generator")
        IN  /\ \A k \in DOMAIN systems :
                  /\ systems[k].confidence \in 0..100
                  /\ systems[k].detected = (systems[k].confidence >= 30)
            /\ \A k \in DOMAIN tools :
                  /\ tools[k].confidence \in 0..100
                  /\ tools[k].detected = (tools[k].confidence >= 30)
            /\ EntryOf(systems, "WordPress") =
                  (IF wp = 0 THEN {}
                   ELSE {[name |-> "WordPress", confidence |-> Min(100, wp),
                          detected |-> (Min(100, wp) >= 30)]})
            /\ resp.cms_detected.total_detected =
                  Cardinality({k \in DOMAIN systems : systems[k].detected})
            /\ resp.analytics_tools.total_detected =
                  Cardinality({k \in DOMAIN tools : tools[k].detected})
            /\ seedHtml.signals = {"wp-includes"} =>
                  /\ systems = <<[name |-> "WordPress", confidence |-> 25, detected |-> FALSE]>>
                  /\ resp.cms_detected.total_detected = 0

\* C17 witness: the page that matches wp-includes and nothing else has been
\* analysed.
C17_Witness ==
    /\ Scored("signals") /\ seedHtml.signals = {"wp-includes"}
    /\ Len(resp.cms_detected.detected_systems) = 1
    /\ resp.cms_detected.detected_systems[1].confidence = 25
    /\ ~resp.cms_detected.detected_systems[1].detected

\* C18: primary_cms of full_analysis is the first of WordPress, Shopify,
\* Drupal that is reported with detected true, and null when none is; an
\* entry with detected false is never the primary CMS.
C18_PrimaryCmsIsFirstDetected ==
    Scored("signals") =>
        LET systems == resp.cms_detected.detected_systems
            detected(name) == \E e \in EntryOf(systems, name) : e.detected
            primary == resp.cms_detected.primary_cms
        IN  /\ primary = (IF detected("WordPress") THEN "WordPress"
                          ELSE IF detected("Shopify") THEN "Shopify"
                          ELSE IF detected("Drupal") THEN "Drupal"
                          ELSE None)
            /\ \A k \in DOMAIN systems : ~systems[k].detected => primary # systems[k].name
            /\ \A k, j \in DOMAIN systems :
                  (k < j) => <<systems[k].name, systems[j].name>> \in
                      {<<"WordPress", "Shopify">>, <<"WordPress", "Drupal">>,
                       <<"Shopify", "Drupal">>}

\* C18 witness: WordPress is reported below the threshold, Shopify and
\* Drupal are both detected, and Shopify is the primary CMS.
C18_Witness ==
    /\ Scored("signals")
    /\ Len(resp.cms_detected.detected_systems) = 3
    /\ ~resp.cms_detected.detected_systems[1].detected
    /\ resp.cms_detected.total_detected = 2
    /\ resp.cms_detected.primary_cms = "Shopify"

\* the eleven form types
FormTypes == {"Login Form", "Registration Form", "Contact Form", "Newsletter Signup",
              "Search Form", "Payment Form", "Booking Form", "Quote Request Form",
              "Support Form", "Feedback Form", "General Form"}

\* the rules of the form classifier in their order, each with its condition
\* on the form of the page
FormRules ==
    LET types == {seedHtml.inputs[k].type : k \in DOMAIN seedHtml.inputs}
        count == Len(seedHtml.inputs)
        text == ToLowerCase(seedHtml.formHtml)
        url == ToLowerCase(seedHtml.pageUrl)
        says(words) == \E w \in words : Includes(text, w)
    IN  << [type |-> "Login Form",
            holds |-> /\ "password" \in types /\ types \cap {"email", "text"} # {}
                      /\ (says({"login", "sign in"}) \/ Includes(url, "login"))],
           [type |-> "Registration Form",
            holds |-> /\ "password" \in types /\ count >= 3
                      /\ says({"register", "sign up", "create account"})],
           [type |-> "Contact Form",
            holds |-> /\ "email" \in types
                      /\ ("textarea" \in types \/ says({"message"}))
                      /\ (says({"contact", "get in touch"}) \/ Includes(url, "contact"))],
           [type |-> "Newsletter Signup",
            holds |-> /\ "email" \in types /\ count <= 2
                      /\ says({"newsletter", "subscribe", "updates"})],
           [type |-> "Search Form", holds |-> "search" \in types \/ says({"search"})],
           [type |-> "Payment Form", holds |-> says({"payment", "credit card", "billing"})],
           [type |-> "Booking Form",
            holds |-> "date" \in types \/ says({"booking", "reservation"})],
           [type |-> "Quote Request Form", holds |-> says({"quote", "estimate", "pricing"})],
           [type |-> "Support Form", holds |-> says({"support", "help", "ticket"})],
           [type |-> "Feedback Form", holds |-> says({"feedback", "review", "rating"})],
           [type |-> "General Form", holds |-> TRUE] >>

\* C16: classifyForm returns for every form one of the eleven form types,
\* the type of the first rule in the order Login, Registration, Contact,
\* Newsletter, Search, Payment, Booking, Quote Request, Support, Feedback,
\* General whose condition holds; a form that meets the Login and the
\* Registration conditions is Login, and the form with an email and a
\* password input and text "Login to your account" on path /login is Login.
C16_FirstMatchingRule ==
    (pc = "done" /\ seedHtml.kind = "form") =>
        LET result == resp.detailed_forms[1].form_classification
            first == CHOOSE k \in DOMAIN FormRules :
                        /\ FormRules[k].holds
                        /\ \A j \in 1..(k - 1) : ~FormRules[j].holds
        IN  /\ result \in FormTypes
            /\ result = FormRules[first].type
            /\ (FormRules[1].holds /\ FormRules[2].holds) => result = "Login Form"
            /\ (/\ seedHtml.inputs = <<[type |-> "email"], [type |-> "password"]>>
                /\ seedHtml.formHtml = "<h2>Login to your account</h2>"
                /\ seedHtml.pageUrl = "https://x.com/login") => result = "Login Form"

\* C16 witness: a form that meets both the Login and the Registration
\* conditions has been classified as a Login form.
C16_Witness ==
    /\ pc = "done" /\ seedHtml.kind = "form"
    /\ FormRules[1].holds /\ FormRules[2].holds
    /\ resp.detailed_forms[1].form_classification = "Login Form"

\* C21 as stated: the form_validation crawl ends only when its candidate
\* list is exhausted or the page budget is reached, so a crawl response is
\* sent only with every candidate gone over or with maxPages pages crawled.
C21_VisitedCandidateIsSkipped ==
    (Responded /\ op = "form_validation" /\ resp.method = "enhanced_crawling") =>
        \/ idx > Len(crawlCandidates(internalLinks))
        \/ crawledPages >= maxPages

\* C23: in fetchWithStrategies no delay is awaited before a request of the
\* first attempt; before every request of a later attempt exactly one delay
\* of 1000 to 3000 ms has been awaited, since the request before it, when
\* the request is issued.
C23_DelayBeforeLaterAttempts ==
    /\ [](pc = "fetch" =>
            /\ fw.attempt = 0 => fw.delayMs = 0 /\ fw.delays = 0
            /\ fw.delays = Max(0, fw.requests - Len(strategies))
                              + (IF fw.delayMs > 0 THEN 1 ELSE 0))
    /\ [][fw'.requests = fw.requests + 1 =>
            /\ fw'.delays = fw.delays
            /\ IF fw.requests < Len(strategies)
               THEN fw.delayMs = 0
               ELSE fw.delayMs >= 1000 /\ fw.delayMs <= 3000]_vars

\* C23 witness: the last request of the second attempt is about to be
\* issued, after the third delay of the call.
C23_Witness ==
    /\ pc = "fetch" /\ fw.attempt = 1 /\ fw.sIdx = Len(strategies)
    /\ fw.requests = 2 * Len(strategies) - 1
    /\ fw.delayMs > 2000 /\ fw.delays = 3

\* the absolute URLs the anchors of the seed page of a crawl lead to
SeedPageLinks ==
    IF op = "form_validation"
    THEN {PageUrl(i) : i \in 1..seedHtml.links}
            \cup (IF seedHtml.selfPos > 0 THEN {PageUrl(0)} ELSE {})
    ELSE {Href(u) : u \in {deepFullUrl(seedHtml.hrefs[k], targetUrl) :
                               k \in DOMAIN seedHtml.hrefs} \ {None}}

\* C25: the crawl is depth 1.  Every URL fetched in a form_validation or
\* deep_analysis request is the seed URL or the URL of a link of the seed
\* page; a link that only a sub-page holds is never a candidate and never
\* fetched; once the seed page has been extracted the candidate list never
\* changes, it holds at most 20 links in form_validation and at most 15
\* sub-pages are fetched in deep_analysis.
C25_CrawlIsDepthOne ==
    /\ [](op \in {"form_validation", "deep_analysis"} /\ seedHtml.read =>
            /\ LET links == SeedPageLinks
                   fetched == {pageFetches[k] : k \in 2..Len(pageFetches)}
                   \* deep_analysis keeps its candidates as they are spelled
                   candidates == IF op = "deep_analysis"
                                 THEN {Href(internalLinks[k]) : k \in DOMAIN internalLinks}
                                 ELSE {internalLinks[k] : k \in DOMAIN internalLinks}
               IN  /\ fetched \subseteq links
                   /\ candidates \subseteq links
                   /\ OrphanUrl \notin fetched \cup candidates
            /\ op = "form_validation" =>
                  Len(internalLinks) <= linkLimit /\ Len(pageFetches) - 1 <= maxPages - 1
            /\ op = "deep_analysis" => Len(pageFetches) - 1 <= maxLinksToAnalyze)
    /\ [][seedHtml.read => internalLinks' = internalLinks]_vars

\* C25 witness: a form_validation crawl over a seed page of more than 20
\* links has fetched a sub-page, which links to a page the seed page does
\* not link to, and holds 20 candidates.
C25_Witness ==
    /\ op = "form_validation" /\ seedHtml.read /\ seedHtml.links > linkLimit
    /\ Len(internalLinks) = linkLimit
    /\ successfulPages >= 2
    /\ \E k \in 2..Len(pageFetches) :
          \E j \in DOMAIN SubPageLinks(pageFetches[k]) :
              SubPageLinks(pageFetches[k])[j] \notin SeedPageLinks

\* C28 as stated: the page accessibility score counts an input as unlabelled
\* exactly when analyzeForms gives it an empty label, so the score of a page
\* is the score of that page with the inputs of empty label as its inputs
\* without labels, and a page whose inputs are all wrapped in a label or
\* carry a placeholder loses nothing for its inputs.
C28_UnlabelledIsUnresolvedLabel ==
    (pc = "done" /\ seedHtml.kind = "labels") =>
        LET unresolved(input) == resolveLabel(input) = ""
        IN  /\ resp.accessibility_score =
                  calculateAccessibilityScore(labelPage(seedHtml.inputs, unresolved))
            /\ (\A k \in DOMAIN seedHtml.inputs :
                    \/ seedHtml.inputs[k].wrapLabel # None
                    \/ seedHtml.inputs[k].placeholder # "") =>
                  resp.accessibility_score = 100

\* the sum of the counts of the entries of a breakdown
RECURSIVE sumOfCounts(_)
sumOfCounts(entries) ==
    IF entries = {} THEN 0
    ELSE LET e == CHOOSE x \in entries : TRUE
         IN  e.count + sumOfCounts(entries \ {e})

\* C29 as stated: in every form_validation response with method
\* "enhanced_crawling" or "error_fallback", forms_found and
\* forms_with_multiple_inputs are the length of detailed_forms, the counts of
\* form_types_breakdown sum to that length and every key of it is the
\* form_classification of a detailed form.
C29_FormCountsAgree ==
    (Responded /\ op = "form_validation"
        /\ resp.method \in {"enhanced_crawling", "error_fallback"}) =>
        /\ resp.forms_found = resp.forms_with_multiple_inputs
        /\ resp.forms_with_multiple_inputs = Len(resp.detailed_forms)
        /\ sumOfCounts(resp.form_types_breakdown) = Len(resp.detailed_forms)
        /\ \A e \in resp.form_types_breakdown :
              /\ e.count >= 1
              /\ \E k \in DOMAIN resp.detailed_forms :
                    resp.detailed_forms[k].form_classification = e.type

\* the position of a URL in a list of distinct URLs, 0 when it is not there
PositionIn(list, url) ==
    IF \E k \in DOMAIN list : list[k] = url
    THEN CHOOSE k \in DOMAIN list : list[k] = url
    ELSE 0

C27_EveryRequestIsAnswered == (pc # "idle") ~> Responded

\* what request s holds
SessionState(s) ==
    <<op[s], pc[s], phase[s], fw[s], crawledPages[s], successfulPages[s], failed[s],
      processedUrls[s], internalLinks[s], idx[s], pageFetches[s], resp[s]>>

\* C26: in a crawl request at most one fetch is in flight at any moment; the
\* pages are fetched in candidate order, the fetch of a candidate starting
\* only when every candidate before it has been dealt with; and of two
\* concurrent requests each keeps its own visited set and counters: a step
\* of one changes nothing of the other, a request visits only the pages it
\* fetched itself, and its crawl goes over all its candidates whatever the
\* other request has visited.
C26_SequentialAndIsolated ==
    /\ [](\A s \in Sessions :
            LET started == Len(pageFetches[s])
                dealtWith == IF op[s] = "form_validation" THEN crawledPages[s]
                             ELSE 1 + successfulPages[s] + failed[s]
            IN  /\ Cardinality(fw[s]) <= 1
                /\ fw[s] # {} <=> pc[s] = "fetch"
                /\ crawledPages[s] >= 1 => started = dealtWith + Cardinality(fw[s])
                /\ \A k \in 2..started : pageFetches[s][k] = Href(sessionCandidates(s)[k - 1])
                /\ \A u \in processedUrls[s] : \E k \in 1..started : pageFetches[s][k] = u
                /\ (pc[s] = "done" /\ crawledPages[s] >= 1) =>
                      started = 1 + Len(sessionCandidates(s)))
    /\ [][\E s \in Sessions :
            \A t \in Sessions \ {s} : SessionState(t)' = SessionState(t)]_vars

\* C26 witness: two form_validation requests are each waiting for a
\* sub-page, and each has already visited page p1 itself.
C26_Witness ==
    \A s \in Sessions :
        /\ op[s] = "form_validation" /\ pc[s] = "fetch" /\ phase[s] = "sub"
        /\ PageUrl(1) \in processedUrls[s]
        /\ Cardinality(fw[s]) = 1

\* a crawl whose seed page has been read
Crawling == op \in {"form_validation", "deep_analysis"} /\ seedHtml.read

\* C22: in form_validation and deep_analysis, once the seed page has been
\* read, the failure of a sub-page only counts that page as failed and moves
\* the loop to the next candidate: no response is sent at that step, the
\* forms and the analysed pages collected so far are kept, and the response
\* of the crawl is never an estimation or error response and carries the
\* forms of every analysed page.
C22_SubPageFailureIsIsolated ==
    /\ [](Crawling /\ Responded =>
            /\ resp.http = 200 /\ ~resp.error /\ ~resp.note /\ resp.source = "html"
            /\ resp.method \notin {"intelligent_estimation", "error_fallback"}
            /\ op = "form_validation" =>
                  /\ resp.method = "enhanced_crawling"
                  /\ resp.detailed_forms = allForms
                  /\ resp.total_pages_crawled = resp.successful_pages + failed
            /\ op = "deep_analysis" =>
                  /\ resp.successful_pages = analyzed
                  /\ resp.total_pages_crawled = analyzed + failed)
    /\ [][Crawling =>
            /\ Len(allForms') >= Len(allForms)
            /\ SubSeq(allForms', 1, Len(allForms)) = allForms
            /\ analyzed' >= analyzed
            /\ failed' # failed =>
                  /\ failed' = failed + 1
                  /\ idx' = idx + 1
                  /\ pc' \in {"crawl", "da_loop"}
                  /\ resp' = NoResponse
                  /\ allForms' = allForms /\ analyzed' = analyzed]_vars

\* C22 witness: a form_validation crawl in which a sub-page failed has
\* answered with the forms of the seed page and of a later sub-page.
C22_Witness ==
    /\ Crawling /\ Responded /\ op = "form_validation"
    /\ failed >= 1
    /\ \E k \in DOMAIN resp.detailed_forms : resp.detailed_forms[k].page_url = targetUrl
    /\ \E k \in DOMAIN resp.detailed_forms : resp.detailed_forms[k].page_url # targetUrl

\* the number of links of the lists of a tier
linkCount(links) == Len(links.internal) + Len(links.external)

\* C24: quick_links answers with the links of the structured tier and method
\* "cheerio_parsing" whenever that tier finds a link; it answers with method
\* "pattern_extraction" exactly when the structured tier threw or found no
\* link and the patterns find one, and then with the links of the patterns,
\* at least one.
C24_PatternTierIsFallback ==
    (Responded /\ pc = "done" /\ op = "quick_links" /\ seedHtml.read) =>
        LET structured == IF seedHtml.tiers[1] = -1 THEN NoLinks
                          ELSE structuredLinks(visibleAnchors(seedHtml), targetUrl)
            pattern == extractLinksFromText(seedHtml.anchors, targetUrl)
            sent == [internal |-> resp.internal_links, external |-> resp.external_links]
        IN  /\ linkCount(structured) >= 1 =>
                  resp.method = "cheerio_parsing" /\ sent = structured
            /\ resp.method = "pattern_extraction" <=>
                  (linkCount(structured) = 0 /\ linkCount(pattern) >= 1)
            /\ resp.method = "pattern_extraction" =>
                  sent = pattern /\ linkCount(sent) >= 1 /\ resp.total = linkCount(sent)

\* C24 witness: the structured tier threw on a page whose anchors it could
\* have seen and the pattern tier has answered.
C24_Witness ==
    /\ Responded /\ pc = "done" /\ op = "quick_links"
    /\ seedHtml.tiers[1] = -1 /\ ~seedHtml.hidden
    /\ resp.method = "pattern_extraction"
    /\ Len(resp.internal_links) + Len(resp.external_links) >= 1

\* the anchors the tier that produced the response has gone over
ExtractedAnchors ==
    IF resp.method = "pattern_extraction" THEN seedHtml.anchors ELSE visibleAnchors(seedHtml)

\* the absolute URL anchor i of the page stands for, None when the anchor is
\* not a navigable link
AnchorUrl(i) ==
    LET href == seedHtml.anchors[i].href
    IN  IF skippedHref(href) THEN None ELSE resolveUrl(href, targetUrl)

\* a link list has been extracted from the page
LinksExtracted ==
    /\ Responded /\ pc = "done" /\ seedHtml.read /\ resp.source = "html"
    /\ op \in {"quick_links", "full_analysis"}

\* C11: in quick_links (both tiers) and full_analysis no URL is in both
\* internal_links and external_links, a link is in internal_links exactly
\* when the hostname of its URL is the hostname of the base URL, and every
\* navigable anchor the tier went over is in the list its hostname selects.
C11_HostnamePartition ==
    LinksExtracted =>
        /\ \A k \in DOMAIN resp.internal_links :
              Hostname(resp.internal_links[k].url) = Hostname(targetUrl)
        /\ \A k \in DOMAIN resp.external_links :
              Hostname(resp.external_links[k].url) # Hostname(targetUrl)
        /\ \A k \in DOMAIN resp.internal_links, j \in DOMAIN resp.external_links :
              resp.internal_links[k].url # resp.external_links[j].url
        /\ \A i \in DOMAIN ExtractedAnchors :
              AnchorUrl(i) # None =>
                  IF Hostname(AnchorUrl(i)) = Hostname(targetUrl)
                  THEN \E k \in DOMAIN resp.internal_links :
                          resp.internal_links[k].url = AnchorUrl(i)
                  ELSE \E k \in DOMAIN resp.external_links :
                          resp.external_links[k].url = AnchorUrl(i)

\* C11 witness: the pattern tier of quick_links has answered with links of
\* both kinds.
C11_Witness ==
    /\ LinksExtracted /\ op = "quick_links" /\ resp.method = "pattern_extraction"
    /\ Len(resp.internal_links) >= 1
    /\ Len(resp.external_links) >= 1

\* the dedup of a link list: its entries pushed one by one unless present
dedupLinks(list) ==
    LET F[i \in 0..Len(list)] == IF i = 0 THEN <<>> ELSE pushUnique(F[i - 1], list[i])
    IN  F[Len(list)]

\* C13 as stated: for every URL that one or more anchors of the extracted
\* page resolve to, the response (quick_links in either tier, full_analysis)
\* holds exactly one link with that URL, and it carries the text of the
\* first of these anchors in document order; the dedup of the response's
\* lists is these lists.
C13_FirstOccurrenceText ==
    LinksExtracted =>
        LET links == resp.internal_links \o resp.external_links
            first(i) == CHOOSE j \in DOMAIN ExtractedAnchors :
                            /\ AnchorUrl(j) = AnchorUrl(i)
                            /\ \A l \in 1..(j - 1) : AnchorUrl(l) # AnchorUrl(i)
        IN  /\ \A i \in DOMAIN ExtractedAnchors :
                  AnchorUrl(i) # None =>
                      /\ Cardinality({k \in DOMAIN links : links[k].url = AnchorUrl(i)}) = 1
                      /\ \A k \in DOMAIN links :
                            links[k].url = AnchorUrl(i) => links[k].text = AnchorText(first(i))
            /\ dedupLinks(resp.internal_links) = resp.internal_links
            /\ dedupLinks(resp.external_links) = resp.external_links

====
